---------------------------- MODULE Spec2Model ----------------------------
(***************************************************************************)
(* Model of the ONS Postcode Directory processor                           *)
(* (src/onspd_tools/onspd_processor.py): the field extractor, the lookup   *)
(* enricher, the chunked ingestion of one file, the directory run with its *)
(* statistics, the dataset assembler and the command-line entry point;     *)
(* and of the bulk lookup endpoint of the REST server                      *)
(* (src/server/app/main.py).                                               *)
(*                                                                         *)
(* Text is a sequence of one-character strings, so that strip, lower,      *)
(* split, replace and the number parsers are computed, not assumed.        *)
(* A Python value is a tagged record: Null (None / NaN), StrV, IntV,       *)
(* FloatV, or a JSON object of a lookup table.                             *)
(***************************************************************************)
EXTENDS Integers, Sequences, FiniteSets, TLC

\* ------------------------------------------------------------------------
\* Text primitives (Python str methods used by the processor)
\* ------------------------------------------------------------------------

UpperLetters == <<"A","B","C","D","E","F","G","H","I","J","K","L","M",
                  "N","O","P","Q","R","S","T","U","V","W","X","Y","Z">>

LowerLetters == <<"a","b","c","d","e","f","g","h","i","j","k","l","m",
                  "n","o","p","q","r","s","t","u","v","w","x","y","z">>

Digits == <<"0","1","2","3","4","5","6","7","8","9">>

\* str.strip() removes these from both ends
Whitespace == {" ", "\t"}

IndexIn(c, seq) ==
  IF \E i \in 1..Len(seq) : seq[i] = c
  THEN CHOOSE i \in 1..Len(seq) : seq[i] = c
  ELSE 0

ToLower == [c \in {UpperLetters[i] : i \in 1..Len(UpperLetters)} |-> LowerLetters[IndexIn(c, UpperLetters)]]

LowerChar(c) == IF c \in DOMAIN ToLower THEN ToLower[c] ELSE c

\* str.lower()
Lower(s) == [i \in 1..Len(s) |-> LowerChar(s[i])]

RECURSIVE LStrip(_)
LStrip(s) ==
  IF s # <<>> /\ Head(s) \in Whitespace THEN LStrip(Tail(s)) ELSE s

RECURSIVE RStrip(_)
RStrip(s) ==
  IF s # <<>> /\ s[Len(s)] \in Whitespace THEN RStrip(SubSeq(s, 1, Len(s) - 1)) ELSE s

\* str.strip()
Strip(s) == RStrip(LStrip(s))

HasSpace(s) == \E i \in 1..Len(s) : s[i] = " "

\* x.replace(" ", "")
RemoveSpaces(s) == SelectSeq(s, LAMBDA c : c # " ")

FirstSpace(s) == CHOOSE i \in 1..Len(s) : s[i] = " " /\ \A j \in 1..(i - 1) : s[j] # " "

\* x.split(" ")[0] for a text that contains a space
SplitFirst(s) == SubSeq(s, 1, FirstSpace(s) - 1)

\* x.split(" ")[1] for a text that contains a space: the piece between the
\* first space and the next one (or the end)
SplitSecond(s) ==
  LET rest == SubSeq(s, FirstSpace(s) + 1, Len(s))
  IN  IF HasSpace(rest) THEN SubSeq(rest, 1, FirstSpace(rest) - 1) ELSE rest

\* ------------------------------------------------------------------------
\* Python values
\* ------------------------------------------------------------------------

Null == [t |-> "null"]

StrV(s) == [t |-> "str", s |-> s]

IntV(n) == [t |-> "int", n |-> n]

\* a float: k = "fin" is the decimal m * 10^e (m carries the sign, and has
\* no trailing zero unless it is 0); k = "inf" is +/- infinity (sign in m);
\* k = "nan" is not-a-number
FloatV(k, m, e) == [t |-> "float", k |-> k, m |-> m, e |-> e]

IsNull(v) == v.t = "null"

\* Python truthiness of a value the extractor holds: None and "" are falsy
Truthy(v) ==
  CASE v.t = "null" -> FALSE
    [] v.t = "str" -> v.s # <<>>
    [] v.t = "int" -> v.n # 0
    [] v.t = "float" -> ~(v.k = "fin" /\ v.m = 0)
    [] OTHER -> TRUE

\* ------------------------------------------------------------------------
\* float(text) and int(float(text))
\* ------------------------------------------------------------------------

DigitValues == [c \in {Digits[i] : i \in 1..Len(Digits)} |-> IndexIn(c, Digits) - 1]

IsDigit(c) == c \in DOMAIN DigitValues

DigitVal(c) == DigitValues[c]

AllDigits(s) == \A i \in 1..Len(s) : IsDigit(s[i])

RECURSIVE DigitsValue(_)
DigitsValue(s) ==
  IF s = <<>> THEN 0 ELSE DigitsValue(SubSeq(s, 1, Len(s) - 1)) * 10 + DigitVal(s[Len(s)])

RECURSIVE Pow10(_)
Pow10(n) == IF n <= 0 THEN 1 ELSE 10 * Pow10(n - 1)

RECURSIVE NumDigits(_)
NumDigits(n) == IF n < 10 THEN 1 ELSE 1 + NumDigits(n \div 10)

\* the results of a failed conversion
ValueError == [t |-> "raise", exc |-> "ValueError"]

OverflowError == [t |-> "raise", exc |-> "OverflowError"]

IsRaise(v) == v.t = "raise"

\* normal form of a finite decimal: no trailing zero in the mantissa
RECURSIVE Normalize(_, _)
Normalize(m, e) ==
  IF m = 0 THEN FloatV("fin", 0, 0)
  ELSE IF m % 10 = 0 THEN Normalize(m \div 10, e + 1)
  ELSE FloatV("fin", m, e)

\* the position of the first e or E of a text, or 0
ExpMark(s) ==
  IF \E i \in 1..Len(s) : s[i] \in {"e", "E"}
  THEN CHOOSE i \in 1..Len(s) : s[i] \in {"e", "E"} /\ \A j \in 1..(i - 1) : s[j] \notin {"e", "E"}
  ELSE 0

\* the value of a decimal literal from its parts: the digits before and
\* after the point, the sign and the digits of the exponent; a magnitude of
\* 10^309 or more is beyond the largest double and gives infinity
DecimalValue(sign, intPart, fracPart, hasExp, expSign, expDigits) ==
  IF ~(AllDigits(intPart) /\ AllDigits(fracPart) /\ Len(intPart) + Len(fracPart) > 0)
  THEN ValueError
  ELSE IF hasExp /\ (expDigits = <<>> \/ ~AllDigits(expDigits))
  THEN ValueError
  ELSE IF DigitsValue(intPart \o fracPart) # 0
          /\ NumDigits(DigitsValue(intPart \o fracPart))
               + expSign * DigitsValue(expDigits) - Len(fracPart) > 309
  THEN FloatV("inf", sign, 0)
  ELSE Normalize(sign * DigitsValue(intPart \o fracPart),
                 expSign * DigitsValue(expDigits) - Len(fracPart))

\* the mantissa split at its point, the exponent at its sign
ParseParts(sign, mant, dot, hasExp, expo) ==
  DecimalValue(sign,
               IF dot = 0 THEN mant ELSE SubSeq(mant, 1, dot - 1),
               IF dot = 0 THEN <<>> ELSE SubSeq(mant, dot + 1, Len(mant)),
               hasExp,
               IF expo # <<>> /\ Head(expo) = "-" THEN -1 ELSE 1,
               IF expo # <<>> /\ Head(expo) \in {"+", "-"} THEN Tail(expo) ELSE expo)

\* the literal split at its exponent mark
ParseMantExp(sign, mant, hasExp, expo) ==
  ParseParts(sign, mant, IndexIn(".", mant), hasExp, expo)

\* the unsigned body of a float literal: digits [. digits] [e [sign] digits],
\* with at least one digit in the mantissa
ParseUnsignedAt(s, sign, ePos) ==
  ParseMantExp(sign,
               IF ePos = 0 THEN s ELSE SubSeq(s, 1, ePos - 1),
               ePos # 0,
               IF ePos = 0 THEN <<>> ELSE SubSeq(s, ePos + 1, Len(s)))

ParseUnsigned(s, sign) == ParseUnsignedAt(s, sign, ExpMark(s))

\* the text after its sign
ParseSigned(s, sign) ==
  IF Lower(s) \in {<<"i","n","f">>, <<"i","n","f","i","n","i","t","y">>} THEN FloatV("inf", sign, 0)
  ELSE IF Lower(s) = <<"n","a","n">> THEN FloatV("nan", 0, 0)
  ELSE IF s = <<>> THEN ValueError
  ELSE ParseUnsigned(s, sign)

ParseStripped(s0) ==
  ParseSigned(IF s0 # <<>> /\ Head(s0) \in {"+", "-"} THEN Tail(s0) ELSE s0,
              IF s0 # <<>> /\ Head(s0) = "-" THEN -1 ELSE 1)

\* float(text): surrounding whitespace is ignored; an optional sign; then
\* inf / infinity / nan in any letter case, or a decimal literal
PyFloat(text) == ParseStripped(Strip(text))

\* int(x) for a float x: truncation toward zero; infinity raises
\* OverflowError and not-a-number raises ValueError
PyIntOfFloat(f) ==
  CASE f.k = "inf" -> OverflowError
    [] f.k = "nan" -> ValueError
    [] OTHER ->
        IF f.e >= 0 THEN IntV(f.m * Pow10(f.e))
        ELSE IF f.m >= 0 THEN IntV(f.m \div Pow10(-f.e))
        ELSE IntV(-((-f.m) \div Pow10(-f.e)))

\* ------------------------------------------------------------------------
\* The declarative field-mapping table
\* ------------------------------------------------------------------------

\* one rule; "" stands for an absent type, transform or depends_on key
FieldDef(column, code, type, transform, depends) ==
  [column |-> column, onspd_code |-> code, type |-> type,
   transform |-> transform, depends_on |-> depends]

ONSPD_FIELD_MAPPINGS ==
  << FieldDef("postcode", "pcds", "", "", ""),
     FieldDef("pc_compact", "pcds", "", "compact", ""),
     FieldDef("eastings", "oseast1m", "int", "", ""),
     FieldDef("northings", "osnrth1m", "int", "", ""),
     FieldDef("latitude", "lat", "float", "", "osnrth1m"),
     FieldDef("longitude", "long", "float", "", "oseast1m"),
     FieldDef("country_code", "ctry", "", "", ""),
     FieldDef("nhs_ha_code", "oshlthau", "", "", ""),
     FieldDef("admin_county_id", "oscty", "", "", ""),
     FieldDef("admin_district_id", "oslaua", "", "", ""),
     FieldDef("admin_ward_id", "osward", "", "", ""),
     FieldDef("parish_id", "parish", "", "", ""),
     FieldDef("quality", "osgrdind", "int", "", ""),
     FieldDef("constituency_id", "pcon", "", "", ""),
     FieldDef("european_electoral_region_code", "eer", "", "", ""),
     FieldDef("region_code", "rgn", "", "", ""),
     FieldDef("primary_care_trust_code", "pct", "", "", ""),
     FieldDef("lsoa_id", "lsoa11", "", "", ""),
     FieldDef("msoa_id", "msoa11", "", "", ""),
     FieldDef("nuts_id", "itl", "", "", ""),
     FieldDef("incode", "pcds", "", "incode", ""),
     FieldDef("outcode", "pcds", "", "outcode", ""),
     FieldDef("ced_id", "ced", "", "", ""),
     FieldDef("ccg_id", "sicbl", "", "", ""),
     FieldDef("date_of_introduction", "dointr", "", "", ""),
     FieldDef("date_of_termination", "doterm", "", "", ""),
     FieldDef("pfa_id", "pfa", "", "", "") >>

TargetColumns == {ONSPD_FIELD_MAPPINGS[i].column : i \in 1..Len(ONSPD_FIELD_MAPPINGS)}

\* the transforms with those of incode and outcode exchanged
ApplyTransformExchanged(name, s) ==
  CASE name = "compact" -> StrV(RemoveSpaces(s))
    [] name = "incode" -> IF HasSpace(s) THEN StrV(SplitFirst(s)) ELSE StrV(<<>>)
    [] name = "outcode" -> IF HasSpace(s) THEN StrV(SplitSecond(s)) ELSE StrV(<<>>)

\* the three transform lambdas of the table, applied to a truthy text
ApplyTransform(name, s) ==
  CASE name = "compact" -> StrV(RemoveSpaces(s))
    [] name = "incode" -> IF HasSpace(s) THEN StrV(SplitSecond(s)) ELSE StrV(<<>>)
    [] name = "outcode" -> IF HasSpace(s) THEN StrV(SplitFirst(s)) ELSE StrV(<<>>)

\* ------------------------------------------------------------------------
\* Header Resolver
\* ------------------------------------------------------------------------

\* str.lower() of a header name, for the spellings the source files use
LowerName(h) ==
  CASE h = "PCD" -> "pcd"
    [] h = "PCDS" -> "pcds"
    [] h = "Doterm" -> "doterm"
    [] h = "DOTERM" -> "doterm"
    [] h = "OSEAST1M" -> "oseast1m"
    [] h = "OSNRTH1M" -> "osnrth1m"
    [] h = "LAT" -> "lat"
    [] h = "Long" -> "long"
    [] h = "CTRY" -> "ctry"
    [] h = "OSGRDIND" -> "osgrdind"
    [] h = "Parish" -> "parish"
    [] OTHER -> h

\* a mapping by the column names as the file spells them, not lowered
HeaderMappingAsSpelt(header) ==
  [n \in {header[i] : i \in 1..Len(header)} |->
     (CHOOSE i \in 1..Len(header) :
        header[i] = n /\ \A j \in (i + 1)..Len(header) : header[j] # n) - 1]

\* {col: i for i, col in enumerate(column_names)} with 0-based indices; a
\* name that occurs twice keeps its last index
HeaderMapping(header) ==
  LET names == [i \in 1..Len(header) |-> LowerName(header[i])]
  IN  [n \in {names[i] : i \in 1..Len(names)} |->
         (CHOOSE i \in 1..Len(names) :
            names[i] = n /\ \A j \in (i + 1)..Len(names) : names[j] # n) - 1]

\* mapping.get(code, -1)
GetIdx(mapping, code) == IF code \in DOMAIN mapping THEN mapping[code] ELSE -1

\* ------------------------------------------------------------------------
\* Field Extractor
\* ------------------------------------------------------------------------

NanText == <<"n","a","n">>

\* str(row.iloc[idx]).strip(): pandas reads an empty cell as NaN (na_values
\* = ['']), and str(NaN) is the text "nan"; idx is 0-based
CellText(row, idx) ==
  Strip(IF row[idx + 1] = <<>> THEN NanText ELSE row[idx + 1])

\* the skip test with its comparison turned round (== 'nan')
DotermIsSetInverted(doterm_val) ==
  doterm_val # <<>> /\ doterm_val = NanText /\ Len(doterm_val) > 0

\* a skip test that takes no termination cell to be set
DotermNeverSet(doterm_val) == FALSE

\* if doterm_val and doterm_val != 'nan' and len(doterm_val) > 0
DotermIsSet(doterm_val) ==
  doterm_val # <<>> /\ doterm_val # NanText /\ Len(doterm_val) > 0

DotermCellIsSet(row, doterm_idx) ==
  /\ doterm_idx >= 0
  /\ doterm_idx < Len(row)
  /\ DotermIsSet(CellText(row, doterm_idx))

\* the row-skip test for terminated postcodes
IsTerminated(row, mapping) == DotermCellIsSet(row, GetIdx(mapping, "doterm"))

PcdCellIsHeader(row, pcd_idx) ==
  /\ pcd_idx >= 0
  /\ pcd_idx < Len(row)
  /\ Lower(CellText(row, pcd_idx)) = <<"p","c","d">>

\* the row-skip test for embedded header rows
IsHeaderRow(row, mapping) == PcdCellIsHeader(row, GetIdx(mapping, "pcd"))

\* a reading that takes only the empty text for None
EmptyToNullOnlyEmpty(text) == IF text = <<>> THEN Null ELSE StrV(text)

\* "Handle empty values": empty text and "nan" in any letter case are None
EmptyToNull(text) ==
  IF text = <<>> \/ Lower(text) = NanText THEN Null ELSE StrV(text)

\* the dependency test without its '0' case
DependsValIsNullButZero(depends_val) ==
  \/ depends_val = <<>>
  \/ Lower(depends_val) = NanText

\* if not depends_val or depends_val.lower() == 'nan' or depends_val == ''
\* or depends_val == '0'
DependsValIsNull(depends_val) ==
  \/ depends_val = <<>>
  \/ Lower(depends_val) = NanText
  \/ depends_val = <<"0">>

DependsCellIsNull(row, depends_idx) ==
  /\ depends_idx >= 0
  /\ depends_idx < Len(row)
  /\ DependsValIsNull(CellText(row, depends_idx))

\* whether the depends_on cell forces the value to None; an absent
\* dependency column forces nothing
DependencyIsNull(fd, row, mapping) ==
  /\ fd.depends_on # ""
  /\ DependsCellIsNull(row, GetIdx(mapping, fd.depends_on))

\* "Check dependencies"
ApplyDependency(fd, value, row, mapping) ==
  IF DependencyIsNull(fd, row, mapping) THEN Null ELSE value

\* "Apply transformations": only for a truthy value; the lambdas cannot fail
\* on a text, so the except branch is never taken
TransformValue(fd, value) ==
  IF fd.transform # "" /\ Truthy(value) THEN ApplyTransform(fd.transform, value.s) ELSE value

\* a caught ValueError gives None; any other outcome stays
NullIfValueError(v) == IF IsRaise(v) /\ v.exc = "ValueError" THEN Null ELSE v

IntOfParsed(f) == IF IsRaise(f) THEN f ELSE PyIntOfFloat(f)

\* the int coercion if a falsy result were taken for a failure
\* (int(float(value)) or None)
CoerceIntFalsyNull(s) ==
  IF NullIfValueError(IntOfParsed(PyFloat(s))) = IntV(0) THEN Null
  ELSE NullIfValueError(IntOfParsed(PyFloat(s)))

\* int(float(value)) under "except (ValueError, TypeError)": a ValueError
\* gives None, an OverflowError is not caught and leaves the extractor
CoerceInt(s) == NullIfValueError(IntOfParsed(PyFloat(s)))

\* float(value) under "except (ValueError, TypeError)"
CoerceFloat(s) == NullIfValueError(PyFloat(s))

\* "Type conversion": only for a truthy value
CoerceValue(fd, value) ==
  IF Truthy(value) /\ fd.type # ""
  THEN CASE fd.type = "int" -> CoerceInt(value.s)
         [] fd.type = "float" -> CoerceFloat(value.s)
         [] OTHER -> value
  ELSE value

ExtractCell(fd, row, mapping, onspd_idx) ==
  IF onspd_idx >= 0 /\ onspd_idx < Len(row)
  THEN CoerceValue(fd,
         TransformValue(fd,
           ApplyDependency(fd, EmptyToNull(CellText(row, onspd_idx)), row, mapping)))
  ELSE Null

\* the body of the loop over ONSPD_FIELD_MAPPINGS for one rule: the value
\* stored under fd.column, or a raise
ExtractField(fd, row, mapping) == ExtractCell(fd, row, mapping, GetIdx(mapping, fd.onspd_code))

\* the rule that writes a column last (a dict keeps the last value stored
\* under a key)
LastRuleFor ==
  [c \in TargetColumns |->
     CHOOSE i \in 1..Len(ONSPD_FIELD_MAPPINGS) :
       /\ ONSPD_FIELD_MAPPINGS[i].column = c
       /\ \A j \in (i + 1)..Len(ONSPD_FIELD_MAPPINGS) : ONSPD_FIELD_MAPPINGS[j].column # c]

\* the extracted fields of a row, rule by rule
ExtractedFields(row, mapping) ==
  [i \in 1..Len(ONSPD_FIELD_MAPPINGS) |-> ExtractField(ONSPD_FIELD_MAPPINGS[i], row, mapping)] \o <<>>

FirstRaise(vals) ==
  vals[CHOOSE i \in 1..Len(vals) : IsRaise(vals[i]) /\ \A j \in 1..(i - 1) : ~IsRaise(vals[j])]

\* the dict the extracted values make, or the first raise among them
RowDict(vals) ==
  IF \E i \in 1..Len(vals) : IsRaise(vals[i])
  THEN FirstRaise(vals)
  ELSE [t |-> "dict", d |-> [c \in TargetColumns |-> vals[LastRuleFor[c]]] @@ <<>>]

\* processed_row after the loop over the rules, or the first raise
ExtractRow(row, mapping) == RowDict(ExtractedFields(row, mapping))

\* ------------------------------------------------------------------------
\* Lookup Enricher
\* ------------------------------------------------------------------------

\* a parsed lookup table: a JSON object keyed by code, a JSON list, or any
\* other JSON value; an element of a table is a text, a JSON object with
\* named members, or any other JSON value
JMap(m) == [t |-> "map", m |-> m]

JList(l) == [t |-> "list", l |-> l]

JObj(o) == [t |-> "obj", o |-> o]

AttributeError == [t |-> "raise", exc |-> "AttributeError"]

\* the (code_field, table_name, name_field) triples
LookupTriple(code_field, table_name, name_field) ==
  [code_field |-> code_field, table_name |-> table_name, name_field |-> name_field]

NameMappings ==
  << LookupTriple("country_code", "countries", "country"),
     LookupTriple("admin_district_id", "districts", "admin_district"),
     LookupTriple("admin_county_id", "counties", "admin_county"),
     LookupTriple("admin_ward_id", "wards", "admin_ward"),
     LookupTriple("parish_id", "parishes", "parish"),
     LookupTriple("constituency_id", "constituencies", "parliamentary_constituency"),
     LookupTriple("region_code", "regions", "region"),
     LookupTriple("european_electoral_region_code", "european_registers", "european_electoral_region"),
     LookupTriple("primary_care_trust_code", "pcts", "primary_care_trust"),
     LookupTriple("ccg_id", "ccgs", "ccg"),
     LookupTriple("lsoa_id", "lsoa", "lsoa"),
     LookupTriple("msoa_id", "msoa", "msoa"),
     LookupTriple("nuts_id", "nuts", "nuts"),
     LookupTriple("pfa_id", "police_force_areas", "pfa"),
     LookupTriple("ced_id", "ceds", "ced"),
     LookupTriple("nhs_ha_code", "nhsHa", "nhs_ha") >>

LabelFields == {NameMappings[i].name_field : i \in 1..Len(NameMappings)}

\* dict.get(key) of a record held as a function
DictGet(d, key) == IF key \in DOMAIN d THEN d[key] ELSE Null

\* d[key] = value
DictSet(d, key, value) == (key :> value) @@ d

\* the outcome of one triple for a truthy code and a loaded table: the
\* label to store (set), nothing to store, or a raise
NoLabel == [t |-> "unset"]

Label(v) == [t |-> "set", v |-> v]

\* the label of a matched element if 'value' were tried before 'name'
MapLabelValueFirst(lookup_result) ==
  IF lookup_result.t = "obj"
  THEN IF "value" \in DOMAIN lookup_result.o THEN Label(lookup_result.o["value"])
       ELSE IF "name" \in DOMAIN lookup_result.o THEN Label(lookup_result.o["name"])
       ELSE Label(lookup_result)
  ELSE Label(lookup_result)

\* the label a matched element gives in a code-keyed table
MapLabel(lookup_result) ==
  IF lookup_result.t = "obj"
  THEN IF "name" \in DOMAIN lookup_result.o THEN Label(lookup_result.o["name"])
       ELSE IF "value" \in DOMAIN lookup_result.o THEN Label(lookup_result.o["value"])
       ELSE Label(lookup_result)
  ELSE Label(lookup_result)

\* isinstance(lookup_table, dict) and code in lookup_table
MapLookup(table, code) == MapLabel(table.m[code.s])

\* next((item for item in lookup_table if item.get('code') == code), None):
\* the scan stops at the first match; an item that is not an object has no
\* get and raises
RECURSIVE ListScan(_, _)
ListScan(items, code) ==
  IF items = <<>> THEN NoLabel
  ELSE LET item == Head(items)
       IN  IF item.t # "obj" THEN AttributeError
           ELSE IF "code" \in DOMAIN item.o /\ item.o["code"] = code
                THEN IF DOMAIN item.o = {} THEN NoLabel
                     ELSE IF "name" \in DOMAIN item.o THEN Label(item.o["name"])
                     ELSE IF "value" \in DOMAIN item.o THEN Label(item.o["value"])
                     ELSE Label(Null)
                ELSE ListScan(Tail(items), code)

\* a resolution that labels a code the table does not hold with the code
ResolveLabelCodeOnMiss(table, code) ==
  IF table.t = "map" /\ code.s \in DOMAIN table.m THEN MapLookup(table, code)
  ELSE IF table.t = "list" THEN ListScan(table.l, code)
  ELSE Label(code)

ResolveLabel(table, code) ==
  IF table.t = "map" /\ code.s \in DOMAIN table.m THEN MapLookup(table, code)
  ELSE IF table.t = "list" THEN ListScan(table.l, code)
  ELSE NoLabel

\* the label stored under the code field instead of the name field
StoreLabelOverCode(d, triple, r) ==
  CASE r.t = "set" -> [t |-> "dict", d |-> DictSet(d, triple.code_field, r.v)]
    [] r.t = "unset" -> [t |-> "dict", d |-> d]
    [] OTHER -> r

StoreLabel(d, triple, r) ==
  CASE r.t = "set" -> [t |-> "dict", d |-> DictSet(d, triple.name_field, r.v)]
    [] r.t = "unset" -> [t |-> "dict", d |-> d]
    [] OTHER -> r

EnrichWithCode(d, triple, tables, code) ==
  IF Truthy(code) /\ triple.table_name \in DOMAIN tables
  THEN StoreLabel(d, triple, ResolveLabel(tables[triple.table_name], code))
  ELSE [t |-> "dict", d |-> d]

\* the body of the loop over the triples for one triple: the dict after it,
\* or a raise
EnrichOne(d, triple, tables) == EnrichWithCode(d, triple, tables, DictGet(d, triple.code_field))

RECURSIVE EnrichFrom(_, _, _)
EnrichFrom(r, i, tables) ==
  IF IsRaise(r) \/ i > Len(NameMappings) THEN r
  ELSE EnrichFrom(EnrichOne(r.d, NameMappings[i], tables), i + 1, tables)

\* _add_human_readable_names(row): the dict with the labels added, or a raise
AddHumanReadableNames(d, tables) == EnrichFrom([t |-> "dict", d |-> d], 1, tables)

\* ------------------------------------------------------------------------
\* pandas DataFrame, as far as the processor uses it
\* ------------------------------------------------------------------------

\* a DataFrame: its columns, the dtype of each, and its rows in order, every
\* row a function on the columns (None and NaN are both Null)
EmptyFrame == [cols |-> {}, dtype |-> <<>>, rows |-> <<>>]

\* an int as the float of the same value
ToFloat(v) == IF v.t = "int" THEN Normalize(v.n, 0) ELSE v

\* the dtype pandas infers for the values of a column: integers alone are
\* int64; integers or floats with nulls among them, or with each other, are
\* float64; anything else, a column of nulls included, is object
InferDtype(vals) ==
  IF vals \subseteq {Null} THEN "object"
  ELSE IF \A v \in vals : v.t = "int" THEN "int64"
  ELSE IF \A v \in vals : v.t \in {"int", "float", "null"} THEN "float64"
  ELSE "object"

\* a value as a column of a dtype holds it
Cast(v, dtype) == IF dtype = "float64" THEN ToFloat(v) ELSE v

FrameWith(dicts, cols, dtype) ==
  [cols |-> cols,
   dtype |-> dtype,
   rows |-> [i \in 1..Len(dicts) |->
               [c \in cols |-> Cast(DictGet(dicts[i], c), dtype[c])] @@ <<>>] \o <<>>]

\* pd.DataFrame(list of dicts): the columns are the union of the keys, a
\* key a dict lacks is NaN in its row, and every column takes the dtype
\* inferred from its values
FrameOf(dicts, cols) ==
  FrameWith(dicts, cols,
            [c \in cols |-> InferDtype({DictGet(dicts[i], c) : i \in 1..Len(dicts)})] @@ <<>>)

MkDataFrame(dicts) == FrameOf(dicts, UNION {DOMAIN dicts[i] : i \in 1..Len(dicts)})

RECURSIVE FlattenSeq(_)
FlattenSeq(ss) == IF ss = <<>> THEN <<>> ELSE Head(ss) \o FlattenSeq(Tail(ss))

\* the dtype of a column of a concatenation, from the dtypes the frames
\* give it ("missing" where a frame lacks the column, which fills in NaN)
CommonDtype(dtypes) ==
  IF dtypes = {"int64"} THEN "int64"
  ELSE IF dtypes \subseteq {"int64", "float64", "missing"} THEN "float64"
  ELSE "object"

ConcatDtypes(frames, cols) ==
  [c \in cols |->
     CommonDtype({IF c \in frames[i].cols THEN frames[i].dtype[c] ELSE "missing" :
                    i \in 1..Len(frames)})] @@ <<>>

ConcatOver(frames, cols) ==
  FrameWith(FlattenSeq([i \in 1..Len(frames) |-> frames[i].rows]), cols,
            ConcatDtypes(frames, cols))

\* a concatenation that puts the rows of the later frames first
PdConcatLaterFirst(frames) ==
  ConcatOver([i \in 1..Len(frames) |-> frames[Len(frames) + 1 - i]],
             UNION {frames[i].cols : i \in 1..Len(frames)})

\* pd.concat(frames, ignore_index=True): the rows in order over the union
\* of the columns, every column in the common dtype of its parts
PdConcat(frames) == ConcatOver(frames, UNION {frames[i].cols : i \in 1..Len(frames)})

\* df.empty, and len(df) == 0
FrameIsEmpty(df) == df.rows = <<>>

\* row.get(col) on a DataFrame row
RowGet(df, i, col) == IF col \in df.cols THEN df.rows[i][col] ELSE Null

\* ------------------------------------------------------------------------
\* _process_chunk
\* ------------------------------------------------------------------------

\* "Only add row if we have a valid postcode"
AppendOrDrop(enriched) ==
  IF IsRaise(enriched) THEN enriched
  ELSE IF Truthy(DictGet(enriched.d, "postcode")) THEN [t |-> "keep", d |-> enriched.d]
  ELSE [t |-> "drop"]

EnrichExtracted(extracted, tables) ==
  IF IsRaise(extracted) THEN extracted
  ELSE AppendOrDrop(AddHumanReadableNames(extracted.d, tables))

\* the body of the loop over the rows of a chunk, for one row: the row is
\* skipped, or processing raises, or the dict is appended (keep), or it is
\* discarded for want of a postcode (drop)
ProcessRow(row, mapping, tables) ==
  IF IsTerminated(row, mapping) THEN [t |-> "skip"]
  ELSE IF IsHeaderRow(row, mapping) THEN [t |-> "skip"]
  ELSE EnrichExtracted(ExtractRow(row, mapping), tables)

RowOutcomes(rows, mapping, tables) ==
  [i \in 1..Len(rows) |-> ProcessRow(rows[i], mapping, tables)] \o <<>>

\* the positions of the rows that are appended to processed_rows
KeptOf(out) == SelectSeq([i \in 1..Len(out) |-> i], LAMBDA i : out[i].t = "keep")

DictsOf(out, kept) == [k \in 1..Len(kept) |-> out[kept[k]].d]

\* the DataFrame of the appended dicts (with the positions of their rows in
\* the chunk), or the raise of the first row that raises
ChunkResult(out) ==
  IF \E i \in 1..Len(out) : IsRaise(out[i])
  THEN FirstRaise(out)
  ELSE [t |-> "frame", df |-> MkDataFrame(DictsOf(out, KeptOf(out))), kept |-> KeptOf(out)]

\* _process_chunk(chunk, csv_column_mapping)
ProcessChunk(rows, mapping, tables) == ChunkResult(RowOutcomes(rows, mapping, tables))

\* ------------------------------------------------------------------------
\* State
\* ------------------------------------------------------------------------

VARIABLES
  pc,                  \* position of the run
  entry,               \* "main": the command line; "directory": a caller of process_onspd_csv_directory
  schemaFile,          \* data_dir/schemas/onspd_schema.json as found on disk
  lookupFiles,         \* data_dir/lookup_tables/*.json as found on disk, by table name
  csvDir,              \* the input directory: whether it exists, the *.csv files it lists
  chunk_size,          \* the chunk_size argument
  lookup_tables,       \* self.lookup_tables
  column_mapping,      \* self.column_mapping
  fileNo,              \* number of files of csv_files taken so far
  curFile,             \* the file being processed: header, rows, fault
  csv_column_mapping,  \* the header mapping of the file being processed
  rowPos,              \* rows of the file read so far
  chunks,              \* the chunks list of process_onspd_csv
  file_stats,          \* the DataFrame process_onspd_csv returned
  all_chunks,          \* the all_chunks list of process_onspd_csv_directory
  stats,               \* the ProcessingStats of the directory run
  combined,            \* the DataFrame process_onspd_csv_directory returned
  enhanced_data,       \* the output map of generate_enhanced_postcode_data
  summary,             \* the "Total active postcodes" count written to the output
  raised,              \* the exception that left the current call, or "none"
  exitCode,            \* the status main returned, or -1
  srcChunks,           \* history: the input row behind every row of chunks
  srcAll,              \* history: the input row behind every row of all_chunks
  srcEnhanced,         \* history: the input row behind every entry of enhanced_data
  seen                 \* history: the input rows of the files taken so far: how many,
                       \* how many with a termination date (a cell that is neither empty
                       \* nor the text "nan"), how many files that meet an error, and
                       \* the rows the files that meet none contribute; the files
                       \* themselves; and what an earlier run over them returned

\* the single-row walk through _process_chunk
VARIABLES
  rowPc,               \* position within the loop body of _process_chunk
  row,                 \* the row of the chunk
  processed_row        \* the dict being built

runVars == <<pc, entry, schemaFile, lookupFiles, csvDir, chunk_size, lookup_tables,
             column_mapping, fileNo, curFile, csv_column_mapping, rowPos, chunks,
             file_stats, all_chunks, stats, combined, enhanced_data, summary, raised,
             exitCode, srcChunks, srcAll, srcEnhanced, seen>>

rowVars == <<rowPc, row, processed_row>>

VARIABLES
  serverPc,            \* position of the server: idle, a request received, a response sent
  store,               \* the postcodes the lookup store holds
  request,             \* the body of the request: its postcodes list
  response,            \* the response: status code and body
  endpoint,            \* the route the request came in on
  calls                \* the library calls made for the request, in order

serverVars == <<serverPc, store, request, response, endpoint, calls>>

vars == <<runVars, rowVars, serverVars>>

\* ------------------------------------------------------------------------
\* Inputs
\* ------------------------------------------------------------------------

\* bounds of the model: the data rows the input directory holds in all,
\* and the largest chunk_size a caller passes
MaxRows == 2

MaxChunk == 2

\* what csv_dir.glob("*.csv") may list
DirListings == {<<>>, <<"a.csv">>, <<"a.csv", "b.csv">>}

Missing == [k |-> "missing"]

Malformed == [k |-> "malformed"]

Json(v) == [k |-> "json", v |-> v]

LookupFileNames ==
  {"countries", "districts", "constituencies", "counties", "wards", "nhsHa", "regions",
   "european_registers", "pcts", "ccgs", "lsoa", "msoa", "nuts", "parishes",
   "police_force_areas", "ceds"}

\* texts used by the inputs
TxtE9 == <<"E","9">>

TxtW9 == <<"W","9">>

TxtEng == <<"E","n","g">>

TxtWal == <<"W","a","l">>

\* the three shapes of a lookup table, and shapes that resolve nothing
FlatTable == JMap((TxtE9 :> StrV(TxtEng)) @@ (TxtW9 :> StrV(TxtWal)))

NestedTable ==
  JMap((TxtE9 :> JObj([name |-> StrV(TxtEng), value |-> StrV(TxtWal)]))
       @@ (TxtW9 :> JObj([value |-> StrV(TxtWal)]))
       @@ (<<"S","9">> :> JObj([id |-> StrV(<<"S">>)])))

ListTable ==
  JList(<< JObj([code |-> StrV(TxtW9), value |-> StrV(TxtWal)]),
           JObj([code |-> StrV(TxtE9), name |-> StrV(TxtEng), value |-> StrV(TxtWal)]),
           JObj([code |-> StrV(TxtE9), name |-> StrV(TxtWal)]),
           JObj([code |-> StrV(<<"S","9">>)]) >>)

ScalarTable == StrV(TxtEng)

\* a valid schema file: the ordered list of the source column codes
SchemaOk ==
  Json(JList(<< JObj([code |-> "pcd"]), JObj([code |-> "pcds"]), JObj([code |-> "dointr"]),
                JObj([code |-> "doterm"]), JObj([code |-> "oseast1m"]),
                JObj([code |-> "osnrth1m"]), JObj([code |-> "lat"]), JObj([code |-> "long"]),
                JObj([code |-> "ctry"]), JObj([code |-> "osgrdind"]) >>))

\* a schema file that is JSON but not a list of objects that carry a code
SchemaBadShape == Json(JList(<< JObj([code |-> "pcd"]), JObj([name |-> "pcds"]) >>))

SchemaFiles == {Missing, Malformed, SchemaBadShape, SchemaOk}

AllMissing == [n \in LookupFileNames |-> Missing]

\* the lookup directory of the directory runs
RunLookups ==
  { [AllMissing EXCEPT !["countries"] = Json(FlatTable), !["parishes"] = Malformed] }

\* the lookup directories of the construction runs: every state of three of
\* the files, the others missing
ConstructLookups ==
  { [AllMissing EXCEPT !["countries"] = a, !["parishes"] = b, !["ceds"] = c] :
      a \in {Missing, Malformed, Json(FlatTable), Json(ListTable)},
      b \in {Missing, Malformed, Json(NestedTable)},
      c \in {Missing, Malformed, Json(ScalarTable)} }

\* the source columns the input files may carry
SourceCodes == {"pcd", "pcds", "doterm", "oseast1m", "osnrth1m", "lat", "long", "ctry", "osgrdind"}

\* header lines: the canonical one, and one with the columns in another
\* order, in other letter case, and without pcd and osgrdind
HeaderA == <<"pcd", "pcds", "doterm", "oseast1m", "osnrth1m", "lat", "long", "ctry", "osgrdind">>

HeaderB == <<"CTRY", "Long", "LAT", "OSNRTH1M", "OSEAST1M", "Doterm", "PCDS">>

RunHeaders == {HeaderA, HeaderB}

\* a row by column code, and the line of a file with a given header
ActiveRow ==
  [pcd |-> <<"A","1","2","B">>, pcds |-> <<"A","1"," ","2","B">>, doterm |-> <<>>,
   oseast1m |-> <<"5","2">>, osnrth1m |-> <<"1","7">>, lat |-> <<"5","1",".","5">>,
   long |-> <<"-","0",".","1">>, ctry |-> TxtE9, osgrdind |-> <<"1">>]

Line(header, cells) == [i \in 1..Len(header) |-> cells[LowerName(header[i])]]

\* the rows of the directory runs: an active row, a terminated row, a row
\* whose termination cell is the text "nan" and whose country and eastings
\* cells are empty, a row whose eastings cell is "inf", and a second row
\* for the postcode of the active row, with other eastings and country
RunRows ==
  { ActiveRow,
    [ActiveRow EXCEPT !.pcds = <<"T","1"," ","1","T">>, !.doterm = <<"2","0","2","0">>],
    [ActiveRow EXCEPT !.pcds = <<"N","1"," ","1","N">>, !.doterm = <<"n","a","n">>, !.ctry = <<>>,
                      !.oseast1m = <<>>],
    [ActiveRow EXCEPT !.pcds = <<"O","1"," ","1","O">>, !.oseast1m = <<"i","n","f">>],
    [ActiveRow EXCEPT !.oseast1m = <<"7","7">>, !.ctry = TxtW9] }

\* a source file: its header line, its data lines, and what is wrong with
\* it: nothing, a header line that cannot be read (fault "header": the file
\* is empty or undecodable), or a line the parser rejects (fault "line",
\* at badLine)
SourceFile(header, lines, fault, badLine) ==
  [header |-> header, rows |-> lines, fault |-> fault, badLine |-> badLine]

NoFile == SourceFile(<<>>, <<>>, "none", 0)

SourceFiles ==
  LET good == UNION { { SourceFile(h, [i \in 1..n |-> Line(h, cells[i])], "none", 0) :
                          cells \in [1..n -> RunRows] } : h \in RunHeaders, n \in 0..MaxRows }
  IN  good
      \cup {SourceFile(<<>>, <<>>, "header", 0)}
      \cup UNION { { SourceFile(h, [i \in 1..n |-> Line(h, ActiveRow)], "line", b) : b \in 1..n } :
                      h \in RunHeaders, n \in 1..MaxRows }

\* ------------------------------------------------------------------------
\* Loaders
\* ------------------------------------------------------------------------

\* the loader if a file that does not parse left an empty table behind
LoadLookupTablesKeepingMalformed(files) ==
  [n \in {n \in LookupFileNames : files[n].k # "missing"} |->
     IF files[n].k = "json" THEN files[n].v ELSE JMap(<<>>)]

\* _load_lookup_tables: the tables whose file exists and parses
LoadLookupTables(files) ==
  [n \in {n \in LookupFileNames : files[n].k = "json"} |-> files[n].v]

FileNotFoundError == [t |-> "raise", exc |-> "FileNotFoundError"]

JSONDecodeError == [t |-> "raise", exc |-> "JSONDecodeError"]

SchemaShapeError == [t |-> "raise", exc |-> "KeyError"]

SchemaMapping(items) ==
  IF \E i \in 1..Len(items) : items[i].t # "obj" \/ "code" \notin DOMAIN items[i].o
  THEN SchemaShapeError
  ELSE [t |-> "mapping",
        m |-> [c \in {items[i].o["code"] : i \in 1..Len(items)} |->
                 (CHOOSE i \in 1..Len(items) :
                    /\ items[i].o["code"] = c
                    /\ \A j \in (i + 1)..Len(items) : items[j].o["code"] # c) - 1]]

\* _load_onspd_schema: {item['code']: i for i, item in enumerate(schema)},
\* or the raise of a missing file, of json.load, or of item['code']
LoadSchema(file) ==
  CASE file.k = "missing" -> FileNotFoundError
    [] file.k = "malformed" -> JSONDecodeError
    [] OTHER -> IF file.v.t # "list" THEN SchemaShapeError ELSE SchemaMapping(file.v.l)

\* ------------------------------------------------------------------------
\* The run
\* ------------------------------------------------------------------------

\* chunk_size of process_onspd_csv_directory when the caller gives none
DefaultChunkSize == 50000

ProcessingStats(total, active, terminated, with_coordinates) ==
  [total_rows_processed |-> total, active_postcodes |-> active,
   terminated_postcodes |-> terminated, with_coordinates |-> with_coordinates]

NoMapping == [c \in {} |-> 0]

\* the history keeps no files: the run is not repeated
NoRun == [t |-> "none"]

\* the history keeps the files read: the run is the first of two
FirstRun == [t |-> "first"]

NoCounts ==
  [rows |-> 0, terminated |-> 0, faulty |-> 0, good |-> <<>>, files |-> <<>>, first |-> NoRun]

InitRow ==
  /\ rowPc = "idle"
  /\ row = <<>>
  /\ processed_row = NoMapping

\* no request has reached the server
ServerIdle ==
  /\ serverPc = "idle"
  /\ store = {}
  /\ request = <<>>
  /\ response = [status |-> 0]
  /\ endpoint = "none"
  /\ calls = <<>>

InitState ==
  /\ pc = "start"
  /\ lookup_tables = NoMapping
  /\ column_mapping = NoMapping
  /\ fileNo = 0
  /\ curFile = NoFile
  /\ csv_column_mapping = NoMapping
  /\ rowPos = 0
  /\ chunks = <<>>
  /\ file_stats = EmptyFrame
  /\ all_chunks = <<>>
  /\ stats = ProcessingStats(0, 0, 0, 0)
  /\ combined = EmptyFrame
  /\ enhanced_data = NoMapping
  /\ summary = -1
  /\ raised = "none"
  /\ exitCode = -1
  /\ srcChunks = <<>>
  /\ srcAll = <<>>
  /\ srcEnhanced = NoMapping

InitRun ==
  /\ InitState
  /\ seen = NoCounts

\* a directory run: from the command line (main constructs the processor and
\* calls generate_enhanced_postcode_data, which passes no chunk size), or a
\* caller that constructs the processor and calls
\* process_onspd_csv_directory with a chunk size
InitInputs ==
  /\ schemaFile \in {SchemaOk, Missing}
  /\ lookupFiles \in RunLookups
  /\ csvDir \in [exists : BOOLEAN, files : DirListings]
  /\ csvDir.exists \/ csvDir.files = <<>>
  /\ entry \in {"main", "directory"}
  /\ \/ entry = "main" /\ chunk_size = DefaultChunkSize
     \/ entry = "directory" /\ chunk_size \in 1..MaxChunk

Init ==
  /\ InitRun
  /\ InitRow
  /\ ServerIdle
  /\ InitInputs

SchemaLoaded(schema) ==
  IF IsRaise(schema)
  THEN /\ raised' = schema.exc
       /\ pc' = "return"
       /\ UNCHANGED column_mapping
  ELSE /\ column_mapping' = schema.m
       /\ pc' = "constructed"
       /\ UNCHANGED raised

\* ONSPDProcessor.__init__: the lookup tables, then the schema
Construct ==
  /\ pc = "start"
  /\ lookup_tables' = LoadLookupTables(lookupFiles)
  /\ SchemaLoaded(LoadSchema(schemaFile))
  /\ UNCHANGED <<entry, schemaFile, lookupFiles, csvDir, chunk_size, fileNo, curFile,
                 csv_column_mapping, rowPos, chunks, file_stats, all_chunks, stats,
                 combined, enhanced_data, summary, exitCode, srcChunks, srcAll,
                 srcEnhanced, seen>>
  /\ UNCHANGED <<rowVars, serverVars>>

\* variables no step of the run changes after Init
inputVars == <<entry, schemaFile, lookupFiles, csvDir, chunk_size>>

\* process_onspd_csv_directory, up to the loop over csv_files, if
\* all_chunks outlived the call (a list kept on the processor)
BeginDirectoryKeepingChunks ==
  /\ pc = "constructed"
  /\ IF ~csvDir.exists
     THEN /\ raised' = "FileNotFoundError"
          /\ pc' = "return"
     ELSE IF csvDir.files = <<>>
     THEN /\ raised' = "ValueError"
          /\ pc' = "return"
     ELSE /\ pc' = "files"
          /\ UNCHANGED raised
  /\ stats' = ProcessingStats(0, 0, 0, 0)
  /\ fileNo' = 0
  /\ UNCHANGED <<inputVars, lookup_tables, column_mapping, curFile, all_chunks, srcAll,
                 csv_column_mapping, rowPos, chunks, file_stats, combined, enhanced_data,
                 summary, exitCode, srcChunks, srcEnhanced, seen>>
  /\ UNCHANGED <<rowVars, serverVars>>

\* process_onspd_csv_directory, up to the loop over csv_files
BeginDirectory ==
  /\ pc = "constructed"
  /\ IF ~csvDir.exists
     THEN /\ raised' = "FileNotFoundError"
          /\ pc' = "return"
     ELSE IF csvDir.files = <<>>
     THEN /\ raised' = "ValueError"
          /\ pc' = "return"
     ELSE /\ pc' = "files"
          /\ UNCHANGED raised
  /\ all_chunks' = <<>>
  /\ srcAll' = <<>>
  /\ stats' = ProcessingStats(0, 0, 0, 0)
  /\ fileNo' = 0
  /\ UNCHANGED <<inputVars, lookup_tables, column_mapping, curFile,
                 csv_column_mapping, rowPos, chunks, file_stats, combined, enhanced_data,
                 summary, exitCode, srcChunks, srcEnhanced, seen>>
  /\ UNCHANGED <<rowVars, serverVars>>

\* the termination cell of a line of a file, as the file holds it
RawDoterm(file, i) ==
  LET at == {j \in 1..Len(file.header) : LowerName(file.header[j]) = "doterm"}
  IN  IF at = {} THEN <<>> ELSE file.rows[i][CHOOSE j \in at : TRUE]


Min(a, b) == IF a <= b THEN a ELSE b

\* the input row behind a retained record
Origin(fno, file, line) == [file |-> fno, line |-> line, header |-> file.header, cells |-> file.rows[line]]

OriginsOf(fno, file, kept) == [k \in 1..Len(kept) |-> Origin(fno, file, kept[k])]

ContributionOf(fno, file, out) ==
  IF file.fault # "none" \/ \E i \in 1..Len(out) : IsRaise(out[i])
  THEN [faulty |-> 1, good |-> <<>>]
  ELSE [faulty |-> 0, good |-> OriginsOf(fno, file, KeptOf(out))]

\* what a file should contribute: whether its processing meets an I/O,
\* parse or processing error, and, if it meets none, the input rows that
\* are retained when the rows are taken one by one
Contribution(fno, file, tables) ==
  ContributionOf(fno, file, RowOutcomes(file.rows, HeaderMapping(file.header), tables))

\* the history after a file is taken
SeenAfter(file, due) ==
  [rows |-> seen.rows + Len(file.rows),
   terminated |-> seen.terminated
      + Cardinality({i \in 1..Len(file.rows) : Strip(RawDoterm(file, i)) \notin {<<>>, NanText}}),
   faulty |-> seen.faulty + due.faulty,
   good |-> seen.good \o due.good,
   files |-> IF seen.first = FirstRun THEN Append(seen.files, file) ELSE seen.files,
   first |-> seen.first]

\* what the next file of csv_files may hold: anything when the directory is
\* read for the first time, and what it held then when it is read again
FilesOnDisk == IF seen.first.t = "run" THEN {seen.files[fileNo + 1]} ELSE SourceFiles

\* process_onspd_csv, up to the loop over the chunks: the next file of
\* csv_files is taken and its header line resolved
BeginFile ==
  /\ pc = "files"
  /\ fileNo < Len(csvDir.files)
  /\ \E file \in FilesOnDisk :
       /\ seen.rows + Len(file.rows) <= MaxRows
       /\ curFile' = file
       /\ fileNo' = fileNo + 1
       /\ seen' = SeenAfter(file, Contribution(fileNo + 1, file, lookup_tables))
       /\ IF file.fault = "header"
          THEN /\ raised' = "EmptyDataError"
               /\ pc' = "return"
               /\ UNCHANGED csv_column_mapping
          ELSE /\ csv_column_mapping' = HeaderMapping(file.header)
               /\ pc' = "chunks"
               /\ UNCHANGED raised
  /\ chunks' = <<>>
  /\ srcChunks' = <<>>
  /\ rowPos' = 0
  /\ UNCHANGED <<inputVars, lookup_tables, column_mapping, file_stats, all_chunks, stats,
                 combined, enhanced_data, summary, exitCode, srcAll, srcEnhanced>>
  /\ UNCHANGED <<rowVars, serverVars>>

\* the turn's effect if the except branch returned what the earlier chunks
\* gave instead of an empty DataFrame
ChunkStepKeepingEarlier(last, parseError, processed_chunk) ==
  IF parseError \/ IsRaise(processed_chunk)
  THEN /\ file_stats' = (IF chunks = <<>> THEN EmptyFrame ELSE PdConcat(chunks))
       /\ chunks' = <<>>
       /\ UNCHANGED srcChunks
       /\ pc' = "fileReturned"
       /\ UNCHANGED rowPos
  ELSE /\ rowPos' = last
       /\ IF ~FrameIsEmpty(processed_chunk.df)
          THEN /\ chunks' = Append(chunks, processed_chunk.df)
               /\ srcChunks' = Append(srcChunks,
                     [k \in 1..Len(processed_chunk.kept) |->
                        Origin(fileNo, curFile, rowPos + processed_chunk.kept[k])])
          ELSE UNCHANGED <<chunks, srcChunks>>
       /\ UNCHANGED <<pc, file_stats>>

\* the turn's effect, given the outcome of reading and processing the chunk
ChunkStep(last, parseError, processed_chunk) ==
  IF parseError \/ IsRaise(processed_chunk)
  THEN /\ file_stats' = EmptyFrame
       /\ chunks' = <<>>
       /\ srcChunks' = <<>>
       /\ pc' = "fileReturned"
       /\ UNCHANGED rowPos
  ELSE /\ rowPos' = last
       /\ IF ~FrameIsEmpty(processed_chunk.df)
          THEN /\ chunks' = Append(chunks, processed_chunk.df)
               /\ srcChunks' = Append(srcChunks,
                     [k \in 1..Len(processed_chunk.kept) |->
                        Origin(fileNo, curFile, rowPos + processed_chunk.kept[k])])
          ELSE UNCHANGED <<chunks, srcChunks>>
       /\ UNCHANGED <<pc, file_stats>>

ReadChunkTo(last) ==
  ChunkStep(last,
            curFile.fault = "line" /\ curFile.badLine \in (rowPos + 1)..last,
            ProcessChunk(SubSeq(curFile.rows, rowPos + 1, last), csv_column_mapping, lookup_tables))

\* one turn of the loop over pd.read_csv(..., chunksize=chunk_size): the
\* next chunk is read and processed; any exception ends process_onspd_csv
\* with an empty DataFrame
ReadChunk ==
  /\ pc = "chunks"
  /\ rowPos < Len(curFile.rows)
  /\ ReadChunkTo(Min(rowPos + chunk_size, Len(curFile.rows)))
  /\ UNCHANGED <<inputVars, lookup_tables, column_mapping, fileNo, curFile,
                 csv_column_mapping, all_chunks, stats, combined, enhanced_data, summary,
                 raised, exitCode, srcAll, srcEnhanced, seen>>
  /\ UNCHANGED <<rowVars, serverVars>>

\* process_onspd_csv after the loop over the chunks
FinishFile ==
  /\ pc = "chunks"
  /\ rowPos = Len(curFile.rows)
  /\ file_stats' = IF chunks = <<>> THEN EmptyFrame ELSE PdConcat(chunks)
  /\ chunks' = <<>>
  /\ pc' = "fileReturned"
  /\ UNCHANGED <<inputVars, lookup_tables, column_mapping, fileNo, curFile,
                 csv_column_mapping, rowPos, all_chunks, stats, combined, enhanced_data,
                 summary, raised, exitCode, srcChunks, srcAll, srcEnhanced, seen>>
  /\ UNCHANGED <<rowVars, serverVars>>

\* len(file_stats[file_stats['date_of_termination'].isna()])
CountActive(df) ==
  Cardinality({i \in 1..Len(df.rows) : IsNull(RowGet(df, i, "date_of_termination"))})

\* the count if only the latitude were required
CountWithLatitude(df) ==
  Cardinality({i \in 1..Len(df.rows) : ~IsNull(RowGet(df, i, "latitude"))})

\* len(file_stats.dropna(subset=['latitude', 'longitude']))
CountWithCoordinates(df) ==
  Cardinality({i \in 1..Len(df.rows) :
                 ~IsNull(RowGet(df, i, "latitude")) /\ ~IsNull(RowGet(df, i, "longitude"))})

\* the body of the loop over csv_files after process_onspd_csv returned
AccumulateFile ==
  /\ pc = "fileReturned"
  /\ IF Len(file_stats.rows) > 0
     THEN /\ all_chunks' = Append(all_chunks, file_stats)
          /\ srcAll' = Append(srcAll, FlattenSeq(srcChunks))
          /\ stats' = [stats EXCEPT
                         !.total_rows_processed = @ + Len(file_stats.rows),
                         !.active_postcodes = @ + CountActive(file_stats),
                         !.with_coordinates = @ + CountWithCoordinates(file_stats)]
     ELSE UNCHANGED <<all_chunks, srcAll, stats>>
  /\ srcChunks' = <<>>
  /\ file_stats' = EmptyFrame
  /\ curFile' = NoFile
  /\ csv_column_mapping' = NoMapping
  /\ rowPos' = 0
  /\ pc' = "files"
  /\ UNCHANGED <<inputVars, lookup_tables, column_mapping, fileNo, chunks, combined,
                 enhanced_data, summary, raised, exitCode, srcEnhanced, seen>>
  /\ UNCHANGED <<rowVars, serverVars>>

\* process_onspd_csv_directory after the loop over csv_files
Combine ==
  /\ pc = "files"
  /\ fileNo = Len(csvDir.files)
  /\ IF all_chunks = <<>>
     THEN /\ combined' = EmptyFrame
          /\ UNCHANGED stats
     ELSE /\ combined' = PdConcat(all_chunks)
          /\ stats' = [stats EXCEPT
                         !.terminated_postcodes = stats.total_rows_processed - stats.active_postcodes]
  /\ pc' = IF entry = "main" THEN "assemble" ELSE "return"
  /\ UNCHANGED <<inputVars, lookup_tables, column_mapping, fileNo, curFile,
                 csv_column_mapping, rowPos, chunks, file_stats, all_chunks, enhanced_data,
                 summary, raised, exitCode, srcChunks, srcAll, srcEnhanced, seen>>
  /\ UNCHANGED <<rowVars, serverVars>>

\* df['date_of_termination'].isna() | (df['date_of_termination'] == '')
IsActiveRow(df, i) ==
  LET v == RowGet(df, i, "date_of_termination")
  IN  IsNull(v) \/ v = StrV(<<>>)

\* the EnhancedPostcodeEntry built from row i of a DataFrame
EnhancedEntry(df, i) ==
  [coordinates |-> [latitude |-> RowGet(df, i, "latitude"),
                    longitude |-> RowGet(df, i, "longitude"),
                    eastings |-> RowGet(df, i, "eastings"),
                    northings |-> RowGet(df, i, "northings")],
   administrative |-> [country |-> RowGet(df, i, "country"),
                       admin_district |-> RowGet(df, i, "admin_district"),
                       admin_county |-> RowGet(df, i, "admin_county"),
                       admin_ward |-> RowGet(df, i, "admin_ward"),
                       parish |-> RowGet(df, i, "parish"),
                       constituency |-> RowGet(df, i, "parliamentary_constituency"),
                       region |-> RowGet(df, i, "region"),
                       european_electoral_region |-> RowGet(df, i, "european_electoral_region")],
   healthcare |-> [ccg |-> RowGet(df, i, "ccg"),
                   primary_care_trust |-> RowGet(df, i, "primary_care_trust"),
                   nhs_ha |-> RowGet(df, i, "nhs_ha")],
   statistical |-> [lsoa |-> RowGet(df, i, "lsoa"),
                    msoa |-> RowGet(df, i, "msoa"),
                    nuts |-> RowGet(df, i, "nuts")],
   codes |-> [country_code |-> RowGet(df, i, "country_code"),
              admin_district_id |-> RowGet(df, i, "admin_district_id"),
              admin_county_id |-> RowGet(df, i, "admin_county_id"),
              admin_ward_id |-> RowGet(df, i, "admin_ward_id"),
              parish_id |-> RowGet(df, i, "parish_id"),
              constituency_id |-> RowGet(df, i, "constituency_id"),
              ccg_id |-> RowGet(df, i, "ccg_id"),
              lsoa_id |-> RowGet(df, i, "lsoa_id"),
              msoa_id |-> RowGet(df, i, "msoa_id"),
              nuts_id |-> RowGet(df, i, "nuts_id"),
              pfa_id |-> RowGet(df, i, "pfa_id"),
              ced_id |-> RowGet(df, i, "ced_id")],
   quality |-> IF "quality" \in df.cols THEN df.rows[i]["quality"] ELSE IntV(1),
   date_introduced |-> RowGet(df, i, "date_of_introduction"),
   incode |-> RowGet(df, i, "incode"),
   outcode |-> RowGet(df, i, "outcode")]

\* the rows of the loop over active_df that write an entry: active rows
\* with a truthy postcode
AssembledRows(df) ==
  SelectSeq([i \in 1..Len(df.rows) |-> i],
            LAMBDA i : IsActiveRow(df, i) /\ Truthy(RowGet(df, i, "postcode")))

\* the first of the writers w with a postcode
FirstWriterAmong(df, w, postcode) ==
  w[CHOOSE k \in 1..Len(w) :
      /\ df.rows[w[k]]["postcode"].s = postcode
      /\ \A j \in 1..(k - 1) : df.rows[w[j]]["postcode"].s # postcode]

\* the row that wrote the entry that stays under a postcode: the last of
\* the writers w with that postcode
LastWriterAmong(df, w, postcode) ==
  w[CHOOSE k \in 1..Len(w) :
      /\ df.rows[w[k]]["postcode"].s = postcode
      /\ \A j \in (k + 1)..Len(w) : df.rows[w[j]]["postcode"].s # postcode]

LastWriter(df, postcode) == LastWriterAmong(df, AssembledRows(df), postcode)

PostcodeKeys(df, w) == {df.rows[w[k]]["postcode"].s : k \in 1..Len(w)}

\* the assembly if the written count were that of the active rows
\* (len(active_df)) instead of that of the entries
AssembleIntoCountingRows(df, keys, src) ==
  /\ enhanced_data' = [p \in keys |-> EnhancedEntry(df, LastWriter(df, p))]
  /\ srcEnhanced' = [p \in keys |-> src[LastWriter(df, p)]]
  /\ summary' = Len(AssembledRows(df))

\* the output map, the history of its entries and the written count
AssembleInto(df, keys, src) ==
  /\ enhanced_data' = [p \in keys |-> EnhancedEntry(df, LastWriter(df, p))]
  /\ srcEnhanced' = [p \in keys |-> src[LastWriter(df, p)]]
  /\ summary' = Cardinality(keys)

\* generate_enhanced_postcode_data after process_onspd_csv_directory
\* returned: the active filter, the output map, and the written summary
Assemble ==
  /\ pc = "assemble"
  /\ IF FrameIsEmpty(combined)
     THEN /\ raised' = "ValueError"
          /\ UNCHANGED <<enhanced_data, summary, srcEnhanced>>
     ELSE /\ AssembleInto(combined, PostcodeKeys(combined, AssembledRows(combined)),
                          FlattenSeq(srcAll))
          /\ UNCHANGED raised
  /\ pc' = "return"
  /\ UNCHANGED <<inputVars, lookup_tables, column_mapping, fileNo, curFile,
                 csv_column_mapping, rowPos, chunks, file_stats, all_chunks, stats,
                 combined, exitCode, srcChunks, srcAll, seen>>
  /\ UNCHANGED <<rowVars, serverVars>>

\* the end of the run: main returns 1 from its except branch and 0
\* otherwise; a caller of the processor gets the result or the exception
Return ==
  /\ pc = "return"
  /\ pc' = "done"
  /\ exitCode' = IF entry = "main" THEN (IF raised # "none" THEN 1 ELSE 0) ELSE exitCode
  /\ UNCHANGED <<inputVars, lookup_tables, column_mapping, fileNo, curFile,
                 csv_column_mapping, rowPos, chunks, file_stats, all_chunks, stats,
                 combined, enhanced_data, summary, raised, srcChunks, srcAll,
                 srcEnhanced, seen>>
  /\ UNCHANGED <<rowVars, serverVars>>

Next ==
  \/ Construct
  \/ BeginDirectory
  \/ BeginFile
  \/ ReadChunk
  \/ FinishFile
  \/ AccumulateFile
  \/ Combine
  \/ Assemble
  \/ Return

Spec == Init /\ [][Next]_vars

\* ------------------------------------------------------------------------
\* The pipeline run twice over the same inputs
\* ------------------------------------------------------------------------

\* what a finished run returned
RunResult ==
  [t |-> "run", enhanced_data |-> enhanced_data, summary |-> summary, combined |-> combined,
   stats |-> stats, raised |-> raised, exitCode |-> exitCode]

\* the history at the start of a second run: the files and the result of
\* the first
SeenAtRerun == [NoCounts EXCEPT !.files = seen.files, !.first = RunResult]

\* a second run over the same inputs in a new process: nothing of the
\* first is left in memory
RerunNewProcess ==
  /\ pc = "done"
  /\ seen.first = FirstRun
  /\ pc' = "start"
  /\ lookup_tables' = NoMapping
  /\ column_mapping' = NoMapping
  /\ fileNo' = 0
  /\ curFile' = NoFile
  /\ csv_column_mapping' = NoMapping
  /\ rowPos' = 0
  /\ chunks' = <<>>
  /\ file_stats' = EmptyFrame
  /\ all_chunks' = <<>>
  /\ stats' = ProcessingStats(0, 0, 0, 0)
  /\ combined' = EmptyFrame
  /\ enhanced_data' = NoMapping
  /\ summary' = -1
  /\ raised' = "none"
  /\ exitCode' = -1
  /\ srcChunks' = <<>>
  /\ srcAll' = <<>>
  /\ srcEnhanced' = NoMapping
  /\ seen' = SeenAtRerun
  /\ UNCHANGED inputVars
  /\ UNCHANGED <<rowVars, serverVars>>

\* a second call on the processor the first run constructed: the object
\* and whatever the first call left behind are still there
RerunSameProcessor ==
  /\ pc = "done"
  /\ seen.first = FirstRun
  /\ column_mapping # NoMapping
  /\ pc' = "constructed"
  /\ raised' = "none"
  /\ exitCode' = -1
  /\ seen' = SeenAtRerun
  /\ UNCHANGED <<inputVars, lookup_tables, column_mapping, fileNo, curFile,
                 csv_column_mapping, rowPos, chunks, file_stats, all_chunks, stats,
                 combined, enhanced_data, summary, srcChunks, srcAll, srcEnhanced>>
  /\ UNCHANGED <<rowVars, serverVars>>

NextTwice ==
  \/ Next
  \/ RerunNewProcess
  \/ RerunSameProcessor

\* the runs that are repeated: from the command line, or through
\* process_onspd_csv_directory reading one row to a chunk
InitTwice ==
  /\ InitState
  /\ InitRow
  /\ ServerIdle
  /\ seen = [NoCounts EXCEPT !.first = FirstRun]
  /\ InitInputs
  /\ entry = "directory" => chunk_size = 1

SpecTwice == InitTwice /\ [][NextTwice]_vars

\* ------------------------------------------------------------------------
\* One row through the loop body of _process_chunk
\* ------------------------------------------------------------------------

\* cell contents a row may carry in place of those of ActiveRow
CellChoices ==
  [pcd |-> {<<"p","c","d">>, <<"P","C","D"," ">>},
   pcds |-> {<<>>, <<" ">>, <<"S","W","1","A"," ","1","A","A">>, <<"A","1","2","B">>,
             <<"n"," ","a","n">>, <<"A"," "," ","B">>},
   doterm |-> {<<"2","0","2","0","-","0","1","-","0","1">>, <<"n","a","n">>, <<"N","a","N">>,
               <<" ">>, <<" ","2","0","2","0">>},
   oseast1m |-> {<<"5","2","9","0","9","0">>, <<"i","n","f">>, <<"1","e","9","9","9">>,
                 <<"1","2","3",".","0">>, <<"a","b","c">>, <<>>, <<"0">>},
   osnrth1m |-> {<<"0">>, <<>>, <<"n","a","n">>, <<" ","0"," ">>, <<"0",".","0">>,
                 <<"-","i","n","f">>},
   lat |-> {<<>>, <<"a","b","c">>, <<"9","9",".","9">>, <<"i","n","f">>},
   long |-> {<<>>, <<"a","b","c">>},
   ctry |-> {TxtW9, <<"S","9">>, <<>>},
   osgrdind |-> {<<"x">>, <<"9",".","0">>}]

Replacements == UNION { {[col |-> c, text |-> t] : t \in CellChoices[c]} : c \in SourceCodes }

\* ActiveRow with up to two of its cells replaced
ExtractRows ==
  {ActiveRow}
    \cup { [[ActiveRow EXCEPT ![r1.col] = r1.text] EXCEPT ![r2.col] = r2.text] :
             r1 \in Replacements, r2 \in Replacements }

\* a header line without the pcd, doterm, osnrth1m and osgrdind columns
HeaderC == <<"pcds", "lat", "long", "oseast1m", "ctry">>

\* the header lines of the single-row runs
ExtractHeaders == RunHeaders \cup {HeaderC}

\* the column names as cell text, in lower and in upper case: the cells of a
\* data row that repeats the header line
ColumnNameText ==
  [pcd |-> <<"p","c","d">>, pcds |-> <<"p","c","d","s">>,
   doterm |-> <<"d","o","t","e","r","m">>,
   oseast1m |-> <<"o","s","e","a","s","t","1","m">>,
   osnrth1m |-> <<"o","s","n","r","t","h","1","m">>,
   lat |-> <<"l","a","t">>, long |-> <<"l","o","n","g">>,
   ctry |-> <<"c","t","r","y">>,
   osgrdind |-> <<"o","s","g","r","d","i","n","d">>]

ColumnNameUpper ==
  [pcd |-> <<"P","C","D">>, pcds |-> <<"P","C","D","S">>,
   doterm |-> <<"D","O","T","E","R","M">>,
   oseast1m |-> <<"O","S","E","A","S","T","1","M">>,
   osnrth1m |-> <<"O","S","N","R","T","H","1","M">>,
   lat |-> <<"L","A","T">>, long |-> <<"L","O","N","G">>,
   ctry |-> <<"C","T","R","Y">>,
   osgrdind |-> <<"O","S","G","R","D","I","N","D">>]

HeaderRepeats == {ColumnNameText, ColumnNameUpper}

\* a list table with an element that is not an object
BadListTable == JList(<< StrV(TxtEng), JObj([code |-> StrV(TxtE9), name |-> StrV(TxtEng)]) >>)

\* the lookup directories of the single-row runs: every shape of the
\* countries table
ExtractLookups ==
  { [AllMissing EXCEPT !["countries"] = a] :
      a \in {Missing, Json(FlatTable), Json(NestedTable), Json(ListTable),
             Json(ScalarTable), Json(BadListTable)} }

\* inside process_onspd_csv, a chunk of one row is about to be processed
InitExtract ==
  /\ pc = "chunks"
  /\ entry = "directory"
  /\ schemaFile = SchemaOk
  /\ column_mapping = LoadSchema(SchemaOk).m
  /\ csvDir = [exists |-> TRUE, files |-> <<"a.csv">>]
  /\ chunk_size = 1
  /\ fileNo = 1
  /\ lookupFiles \in ExtractLookups
  /\ lookup_tables = LoadLookupTables(lookupFiles)
  /\ \E h \in ExtractHeaders, cells \in ExtractRows \cup HeaderRepeats :
       /\ curFile = SourceFile(h, <<Line(h, cells)>>, "none", 0)
       /\ csv_column_mapping = HeaderMapping(h)
       /\ row = Line(h, cells)
  /\ rowPc = "filter"
  /\ processed_row = NoMapping
  /\ ServerIdle
  /\ rowPos = 0
  /\ chunks = <<>>
  /\ file_stats = EmptyFrame
  /\ all_chunks = <<>>
  /\ stats = ProcessingStats(0, 0, 0, 0)
  /\ combined = EmptyFrame
  /\ enhanced_data = NoMapping
  /\ summary = -1
  /\ raised = "none"
  /\ exitCode = -1
  /\ srcChunks = <<>>
  /\ srcAll = <<>>
  /\ srcEnhanced = NoMapping
  /\ seen = NoCounts

\* the run's variables but raised
runButRaised ==
  <<pc, entry, schemaFile, lookupFiles, csvDir, chunk_size, lookup_tables, column_mapping,
    fileNo, curFile, csv_column_mapping, rowPos, chunks, file_stats, all_chunks, stats,
    combined, enhanced_data, summary, exitCode, srcChunks, srcAll, srcEnhanced, seen>>

\* the two "continue" tests at the head of the loop body
FilterRow ==
  /\ rowPc = "filter"
  /\ rowPc' = IF IsTerminated(row, csv_column_mapping) \/ IsHeaderRow(row, csv_column_mapping)
              THEN "skipped" ELSE "extract"
  /\ UNCHANGED <<row, processed_row, raised, runButRaised, serverVars>>

RowExtracted(extracted) ==
  IF IsRaise(extracted)
  THEN /\ rowPc' = "extractFailed"
       /\ raised' = extracted.exc
       /\ UNCHANGED processed_row
  ELSE /\ rowPc' = "enrich"
       /\ processed_row' = extracted.d
       /\ UNCHANGED raised

\* the loop over ONSPD_FIELD_MAPPINGS
ExtractFields ==
  /\ rowPc = "extract"
  /\ RowExtracted(ExtractRow(row, csv_column_mapping))
  /\ UNCHANGED <<row, runButRaised, serverVars>>

RowEnriched(enriched) ==
  IF IsRaise(enriched)
  THEN /\ rowPc' = "enrichFailed"
       /\ raised' = enriched.exc
       /\ UNCHANGED processed_row
  ELSE /\ rowPc' = "append"
       /\ processed_row' = enriched.d
       /\ UNCHANGED raised

\* self._add_human_readable_names(processed_row)
EnrichRow ==
  /\ rowPc = "enrich"
  /\ RowEnriched(AddHumanReadableNames(processed_row, lookup_tables))
  /\ UNCHANGED <<row, runButRaised, serverVars>>

\* if processed_row.get('postcode'): processed_rows.append(processed_row)
AppendRow ==
  /\ rowPc = "append"
  /\ rowPc' = IF Truthy(DictGet(processed_row, "postcode")) THEN "kept" ELSE "dropped"
  /\ UNCHANGED <<row, processed_row, raised, runButRaised, serverVars>>

NextExtract ==
  \/ FilterRow
  \/ ExtractFields
  \/ EnrichRow
  \/ AppendRow

SpecExtract == InitExtract /\ [][NextExtract]_vars

\* ------------------------------------------------------------------------
\* Construction of the processor
\* ------------------------------------------------------------------------

\* a caller constructs the processor over any state of the schema file and
\* of the lookup files, then runs over an existing directory without files
InitConstruct ==
  /\ InitRun
  /\ InitRow
  /\ ServerIdle
  /\ schemaFile \in SchemaFiles
  /\ lookupFiles \in ConstructLookups
  /\ csvDir = [exists |-> TRUE, files |-> <<>>]
  /\ entry \in {"main", "directory"}
  /\ chunk_size = DefaultChunkSize

NextConstruct ==
  \/ Construct
  \/ BeginDirectory
  \/ Return

SpecConstruct == InitConstruct /\ [][NextConstruct]_vars

\* ------------------------------------------------------------------------
\* The REST server: POST /postcodes/bulk
\* ------------------------------------------------------------------------

\* settings.max_bulk_requests
max_bulk_requests == 100

\* bound of the model: the postcodes of a request
MaxBulk == 2

\* the PostcodeResult the library gives for the postcodes a store may hold
PostcodeResults ==
  ("SW1A 1AA" :> [postcode |-> "SW1A 1AA", incode |-> "1AA", outcode |-> "SW1A"])
    @@ ("SW1A 2AA" :> [postcode |-> "SW1A 2AA", incode |-> "2AA", outcode |-> "SW1A"])
    @@ ("E1 6AN" :> [postcode |-> "E1 6AN", incode |-> "6AN", outcode |-> "E1"])
    @@ ("GIR 0AA" :> [postcode |-> "GIR 0AA", incode |-> "0AA", outcode |-> "GIR"])

\* the postcodes a client asks for
RequestPostcodes == DOMAIN PostcodeResults \cup {"INVALID"}

\* a list of n items, all the same
Repeat(item, n) == [i \in 1..n |-> item]

\* the bodies a client sends: a list of up to MaxBulk postcodes, or a list
\* as long as the server admits, or one longer than that
BulkRequests ==
  UNION {[1..n -> RequestPostcodes] : n \in 0..MaxBulk}
    \cup {Repeat("SW1A 1AA", max_bulk_requests), Repeat("SW1A 1AA", max_bulk_requests + 1)}

\* a call of the library, as the log of calls records it
Called(fn, arg) == [fn |-> fn, arg |-> arg]

\* ukp.lookup_postcode(pc): the PostcodeResult, or None
LookupPostcode(postcode) == IF postcode \in store THEN PostcodeResults[postcode] ELSE Null

\* PostcodeModel.from_postcode_result(r) if r else None
PydanticResult(r) ==
  IF r = Null THEN Null
  ELSE [postcode |-> r.postcode, incode |-> r.incode, outcode |-> r.outcode]

\* found_count / len(request.postcodes), kept as the fraction
SuccessRate(found, requested) == [found |-> found, of |-> requested]

\* BulkPostcodeResponse(results, found_count, total_requested, success_rate)
BulkPostcodeResponse(results, found_count, total_requested) ==
  [results |-> results, found_count |-> found_count, total_requested |-> total_requested,
   success_rate |-> SuccessRate(found_count, total_requested)]

\* a response that counts every requested postcode as found
BulkResponseCountingAll(results) ==
  BulkPostcodeResponse([i \in 1..Len(results) |-> PydanticResult(results[i])],
                       Len(results),
                       Len(results))

\* the response bulk_lookup builds from the results of the lookups
BulkResponseOf(results) ==
  BulkPostcodeResponse([i \in 1..Len(results) |-> PydanticResult(results[i])],
                       Cardinality({i \in 1..Len(results) : results[i] # Null}),
                       Len(results))

\* ------------------------------------------------------------------------
\* The library behind the other endpoints, as the handlers see it
\* ------------------------------------------------------------------------

max_text_length == 10000
max_search_results == 100
max_area_results == 10000

\* the order in which the library lists the postcodes of the store
StoredOrder == <<"E1 6AN", "GIR 0AA", "SW1A 1AA", "SW1A 2AA">>

\* the postcodes the store holds among the given ones, as the library lists them
StoredAmong(postcodes) ==
  LET Held(k) == k \in store /\ k \in postcodes
  IN  [i \in 1..Len(SelectSeq(StoredOrder, Held)) |->
         PostcodeResults[SelectSeq(StoredOrder, Held)[i]]]

\* the first n items of a list
Take(list, n) == SubSeq(list, 1, Min(n, Len(list)))

\* the postcodes ukp.parse takes to be well formed
ValidFormats == {"SW1A 1AA", "SW1A 2AA", "E1 6AN"}

\* ukp.parse(postcode): the parsed postcode, or None
Parse(postcode) == IF postcode \in ValidFormats THEN [postcode |-> postcode] ELSE Null

\* ukp.search_postcodes(query, limit)
SearchPostcodes(query, limit) ==
  IF query = <<"S", "W">> THEN Take(StoredAmong({"SW1A 1AA", "SW1A 2AA"}), limit) ELSE <<>>

\* the point the postcodes of the store lie around
Centre == [latitude |-> 51, longitude |-> 0]

\* ukp.find_nearest(latitude, longitude, radius_km, limit): pairs of a
\* PostcodeResult and its distance
FindNearest(latitude, longitude, radius_km, limit) ==
  IF [latitude |-> latitude, longitude |-> longitude] = Centre
  THEN LET near == Take(StoredAmong(DOMAIN PostcodeResults), limit)
       IN  [i \in 1..Len(near) |-> <<near[i], i>>]
  ELSE <<>>

\* ukp.reverse_geocode(latitude, longitude): the closest PostcodeResult, or None
ReverseGeocode(latitude, longitude) ==
  IF [latitude |-> latitude, longitude |-> longitude] = Centre /\ store # {}
  THEN Head(StoredAmong(DOMAIN PostcodeResults))
  ELSE Null

\* ukp.get_outcode_postcodes(outcode)
GetOutcodePostcodes(outcode) ==
  StoredAmong({k \in DOMAIN PostcodeResults : PostcodeResults[k].outcode = outcode})

\* ukp.get_area_postcodes(area_type, area_value, limit)
GetAreaPostcodes(area_type, area_value, limit) ==
  IF area_type = "country" /\ area_value = "England"
  THEN Take(StoredAmong(DOMAIN PostcodeResults), limit)
  ELSE <<>>

\* a text that holds one postcode
OnePostcodeText == <<"E", "1", " ", "6", "A", "N">>

\* ukp.parse_from_corpus(text, attempt_fix, try_all_fix_options)
ParseFromCorpus(text) == IF text = OnePostcodeText THEN <<[postcode |-> "E1 6AN"]>> ELSE <<>>

\* postcode1.distance_to(postcode2), in kilometres
DistanceTo(postcode1, postcode2) ==
  [t |-> "float", km |-> IF postcode1 = postcode2 THEN 0 ELSE 5]

\* the server starts over a store
InitServer ==
  /\ InitRun
  /\ InitRow
  /\ schemaFile = Missing
  /\ lookupFiles = AllMissing
  /\ csvDir = [exists |-> FALSE, files |-> <<>>]
  /\ entry = "main"
  /\ chunk_size = DefaultChunkSize
  /\ serverPc = "idle"
  /\ store \in SUBSET DOMAIN PostcodeResults
  /\ request = <<>>
  /\ response = [status |-> 0]
  /\ endpoint = "none"
  /\ calls = <<>>

\* a POST /postcodes/bulk arrives: BulkPostcodeRequest admits a list of 1 to
\* max_bulk_requests postcodes, and any other is answered 422
PostBulk ==
  /\ serverPc = "idle"
  /\ \E body \in BulkRequests :
       /\ request' = body
       /\ IF Len(body) < 1 \/ Len(body) > max_bulk_requests
          THEN /\ response' = [status |-> 422]
               /\ serverPc' = "responded"
          ELSE /\ serverPc' = "received"
               /\ UNCHANGED response
  /\ endpoint' = "bulk"
  /\ UNCHANGED <<store, calls, runVars, rowVars>>

\* bulk_lookup(request)
bulk_lookup ==
  /\ serverPc = "received"
  /\ endpoint = "bulk"
  /\ response' = [status |-> 200,
                  body |-> BulkResponseOf([i \in 1..Len(request) |-> LookupPostcode(request[i])])]
  /\ calls' = calls \o [i \in 1..Len(request) |-> Called("lookup_postcode", request[i])]
  /\ serverPc' = "responded"
  /\ UNCHANGED <<store, request, endpoint, runVars, rowVars>>

\* ------------------------------------------------------------------------
\* The other endpoints: request models, then handlers
\* ------------------------------------------------------------------------

\* what clients send
SearchQueries == {<<>>, <<"S", "W">>, Repeat("X", 10), Repeat("X", 11)}
SearchLimits == {0, 1, max_search_results, max_search_results + 1}
Texts == {<<>>, OnePostcodeText, Repeat("a", max_text_length), Repeat("a", max_text_length + 1)}
Latitudes == {-91, -90, 51, 90, 91}
Longitudes == {-181, -180, 0, 180, 181}
Radii == {0, 10, 51}
AreaTypes == {"country", "region", "district", "county", "constituency", "healthcare_region"}
AreaLimits == {0, 1, max_area_results, max_area_results + 1}
RequestOutcodes == {"SW1A", "E1", "ZZ9"}

Routes ==
  {"lookup", "search", "validate", "parse", "nearest", "reverse", "distance", "area", "outcode"}

\* the requests a client sends to a route
Bodies(route) ==
  CASE route = "lookup" -> RequestPostcodes
    [] route = "search" -> [query : SearchQueries, limit : SearchLimits]
    [] route = "validate" -> BulkRequests
    [] route = "parse" -> [text : Texts]
    [] route = "nearest" ->
         [latitude : Latitudes, longitude : Longitudes, radius_km : Radii, limit : {1, 101}]
           \cup [latitude : {51}, longitude : {0}, radius_km : {10}, limit : SearchLimits]
    [] route = "reverse" -> [latitude : Latitudes, longitude : Longitudes]
    [] route = "distance" -> [postcode1 : RequestPostcodes, postcode2 : RequestPostcodes]
    [] route = "area" ->
         [area_type : AreaTypes \cup {"invalid_type"}, area_value : {"England", "Nowhere"},
          limit : AreaLimits]
    [] route = "outcode" -> RequestOutcodes

\* the request models: what each admits
PostcodeSearchRequest(body) ==
  /\ 1 <= Len(body.query) /\ Len(body.query) <= 10
  /\ 1 <= body.limit /\ body.limit <= max_search_results

SpatialSearchRequest(body) ==
  /\ -90 <= body.latitude /\ body.latitude <= 90
  /\ -180 <= body.longitude /\ body.longitude <= 180
  /\ 0 < body.radius_km /\ body.radius_km <= 50
  /\ 1 <= body.limit /\ body.limit <= max_search_results

ReverseGeocodeRequest(body) ==
  /\ -90 <= body.latitude /\ body.latitude <= 90
  /\ -180 <= body.longitude /\ body.longitude <= 180

\* a text model that admits one character too many
TextParseRequestOneMore(body) == 1 <= Len(body.text) /\ Len(body.text) <= max_text_length + 1

TextParseRequest(body) == 1 <= Len(body.text) /\ Len(body.text) <= max_text_length

PostcodeValidationRequest(body) == 1 <= Len(body) /\ Len(body) <= max_bulk_requests

\* the parameters of get_area_postcodes
AreaParameters(body) ==
  /\ body.area_type \in AreaTypes
  /\ 1 <= body.limit /\ body.limit <= 10000

\* whether the request passes the validation of its route
Accepted(route, body) ==
  CASE route = "search" -> PostcodeSearchRequest(body)
    [] route = "validate" -> PostcodeValidationRequest(body)
    [] route = "parse" -> TextParseRequest(body)
    [] route = "nearest" -> SpatialSearchRequest(body)
    [] route = "reverse" -> ReverseGeocodeRequest(body)
    [] route = "area" -> AreaParameters(body)
    [] OTHER -> TRUE

\* a request arrives on a route other than the bulk lookup: one its model
\* does not admit is answered 422, and the handler is not called
Arrive ==
  /\ serverPc = "idle"
  /\ \E route \in Routes : \E body \in Bodies(route) :
       /\ endpoint' = route
       /\ request' = body
       /\ IF Accepted(route, body)
          THEN /\ serverPc' = "received"
               /\ UNCHANGED response
          ELSE /\ response' = [status |-> 422]
               /\ serverPc' = "responded"
  /\ UNCHANGED <<store, calls, runVars, rowVars>>

\* the handler of a route answers, after the library calls it made
Respond(route, answer, made) ==
  /\ serverPc = "received"
  /\ endpoint = route
  /\ response' = answer
  /\ calls' = calls \o made
  /\ serverPc' = "responded"
  /\ UNCHANGED <<store, request, endpoint, runVars, rowVars>>

\* the models of a list of PostcodeResults
ModelsOf(results) == [i \in 1..Len(results) |-> PydanticResult(results[i])]

\* raise HTTPException(status_code=404, detail=detail)
NotFound(detail) == [status |-> 404, detail |-> detail]

\* an answer that is 200 whatever the lookup gave
PostcodeAnswerAlwaysOk(result) == [status |-> 200, body |-> PydanticResult(result)]

\* the answer of get_postcode to the result of the lookup
PostcodeAnswer(result) ==
  IF result = Null THEN NotFound("Postcode not found")
  ELSE [status |-> 200, body |-> PydanticResult(result)]

get_postcode ==
  /\ endpoint = "lookup"
  /\ Respond("lookup", PostcodeAnswer(LookupPostcode(request)),
             <<Called("lookup_postcode", request)>>)

search_postcodes ==
  /\ endpoint = "search"
  /\ Respond("search",
             [status |-> 200,
              body |-> [results |-> ModelsOf(SearchPostcodes(request.query, request.limit)),
                        total_found |-> Len(SearchPostcodes(request.query, request.limit)),
                        query |-> request.query]],
             <<Called("search_postcodes", request)>>)

\* a record of one postcode that asks the store whatever the format
ValidationLookingUpAlways(postcode, valid_format) ==
  LET exists_in_db == LookupPostcode(postcode) # Null
  IN  [postcode |-> postcode, valid_format |-> valid_format, exists_in_db |-> exists_in_db,
       valid |-> valid_format /\ exists_in_db]

\* what validate_postcodes records of one postcode
ValidationOf(postcode, valid_format) ==
  LET exists_in_db == IF valid_format THEN LookupPostcode(postcode) # Null ELSE FALSE
  IN  [postcode |-> postcode, valid_format |-> valid_format, exists_in_db |-> exists_in_db,
       valid |-> valid_format /\ exists_in_db]

\* the library calls validate_postcodes makes for one postcode
ValidationCalls(postcode, valid_format) ==
  <<Called("parse", postcode)>>
    \o (IF valid_format THEN <<Called("lookup_postcode", postcode)>> ELSE <<>>)

\* PostcodeValidationResponse(results, total_valid, total_checked, validation_rate)
PostcodeValidationResponse(results, total_checked) ==
  LET total_valid == Cardinality({i \in 1..Len(results) : results[i].valid})
  IN  [results |-> results, total_valid |-> total_valid, total_checked |-> total_checked,
       validation_rate |-> SuccessRate(total_valid, total_checked)]

validate_postcodes ==
  /\ endpoint = "validate"
  /\ Respond("validate",
             [status |-> 200,
              body |-> PostcodeValidationResponse(
                         [i \in 1..Len(request) |->
                            ValidationOf(request[i], Parse(request[i]) # Null)],
                         Len(request))],
             FlattenSeq([i \in 1..Len(request) |->
                           ValidationCalls(request[i], Parse(request[i]) # Null)]))

parse_text ==
  /\ endpoint = "parse"
  /\ Respond("parse",
             [status |-> 200,
              body |-> [postcodes |-> ParseFromCorpus(request.text),
                        total_found |-> Len(ParseFromCorpus(request.text)),
                        text_length |-> Len(request.text)]],
             <<Called("parse_from_corpus", Len(request.text))>>)

\* the entries find_nearest makes of the pairs the library gives
FormattedResults(results) ==
  [i \in 1..Len(results) |->
     [postcode |-> PydanticResult(results[i][1]), distance_km |-> results[i][2]]]

find_nearest ==
  /\ endpoint = "nearest"
  /\ Respond("nearest",
             [status |-> 200,
              body |-> [results |-> FormattedResults(
                                     FindNearest(request.latitude, request.longitude,
                                                 request.radius_km, request.limit)),
                        total_found |-> Len(FindNearest(request.latitude, request.longitude,
                                                        request.radius_km, request.limit)),
                        search_center |-> [latitude |-> request.latitude,
                                           longitude |-> request.longitude],
                        radius_km |-> request.radius_km]],
             <<Called("find_nearest", request)>>)

\* the answer of reverse_geocode to the result of the library
ReverseAnswer(result) ==
  IF result = Null THEN NotFound("No postcode found within search radius")
  ELSE [status |-> 200, body |-> PydanticResult(result)]

reverse_geocode ==
  /\ endpoint = "reverse"
  /\ Respond("reverse", ReverseAnswer(ReverseGeocode(request.latitude, request.longitude)),
             <<Called("reverse_geocode", request)>>)

\* DistanceCalculationResponse(postcode1, postcode2, distance_km, error)
DistanceCalculationResponse(body, distance_km, error) ==
  [postcode1 |-> body.postcode1, postcode2 |-> body.postcode2,
   distance_km |-> distance_km, error |-> error]

\* f"Postcode not found: {postcode}"
NotFoundError(postcode) == [t |-> "str", text |-> "Postcode not found: ", of |-> postcode]

\* a response that looks at the second postcode before the first
DistanceAnswerSecondFirst(body, postcode1, postcode2) ==
  IF postcode2 = Null
  THEN DistanceCalculationResponse(body, Null, NotFoundError(body.postcode2))
  ELSE IF postcode1 = Null
  THEN DistanceCalculationResponse(body, Null, NotFoundError(body.postcode1))
  ELSE DistanceCalculationResponse(body, DistanceTo(postcode1.postcode, postcode2.postcode), Null)

\* the response calculate_distance gives to the results of the two lookups
DistanceAnswer(body, postcode1, postcode2) ==
  IF postcode1 = Null
  THEN DistanceCalculationResponse(body, Null, NotFoundError(body.postcode1))
  ELSE IF postcode2 = Null
  THEN DistanceCalculationResponse(body, Null, NotFoundError(body.postcode2))
  ELSE DistanceCalculationResponse(body, DistanceTo(postcode1.postcode, postcode2.postcode), Null)

calculate_distance ==
  /\ endpoint = "distance"
  /\ Respond("distance",
             [status |-> 200,
              body |-> DistanceAnswer(request, LookupPostcode(request.postcode1),
                                      LookupPostcode(request.postcode2))],
             <<Called("lookup_postcode", request.postcode1),
               Called("lookup_postcode", request.postcode2)>>)

get_area_postcodes ==
  /\ endpoint = "area"
  /\ Respond("area",
             [status |-> 200,
              body |-> [results |-> ModelsOf(GetAreaPostcodes(request.area_type,
                                                              request.area_value, request.limit)),
                        total_found |-> Len(GetAreaPostcodes(request.area_type,
                                                             request.area_value, request.limit)),
                        area_type |-> request.area_type,
                        area_value |-> request.area_value]],
             <<Called("get_area_postcodes", request)>>)

\* the answer of get_outcode_postcodes to the results of the library
OutcodeAnswer(results) ==
  IF results = <<>> THEN NotFound("No postcodes found for this outcode")
  ELSE [status |-> 200, body |-> ModelsOf(results)]

get_outcode_postcodes ==
  /\ endpoint = "outcode"
  /\ Respond("outcode", OutcodeAnswer(GetOutcodePostcodes(request)),
             <<Called("get_outcode_postcodes", request)>>)

NextServer ==
  \/ PostBulk
  \/ bulk_lookup
  \/ Arrive
  \/ get_postcode
  \/ search_postcodes
  \/ validate_postcodes
  \/ parse_text
  \/ find_nearest
  \/ reverse_geocode
  \/ calculate_distance
  \/ get_area_postcodes
  \/ get_outcode_postcodes

SpecServer == InitServer /\ [][NextServer]_vars

\* ------------------------------------------------------------------------
\* Properties of the directory run
\* ------------------------------------------------------------------------

\* the input rows behind the records of a list of row lists
OriginsIn(ss) == UNION { {ss[i][k] : k \in 1..Len(ss[i])} : i \in 1..Len(ss) }

\* the input rows behind every record held by a result: the chunks and the
\* result of process_onspd_csv, the result of process_onspd_csv_directory,
\* and the entries of the assembled output
ResultOrigins ==
  OriginsIn(srcChunks) \cup OriginsIn(srcAll) \cup {srcEnhanced[p] : p \in DOMAIN srcEnhanced}

\* the termination cell of an input row, as the file holds it, trimmed
OriginDoterm(o) ==
  LET at == {j \in 1..Len(o.header) : LowerName(o.header[j]) = "doterm"}
  IN  IF at = {} THEN <<>> ELSE Strip(o.cells[CHOOSE j \in at : TRUE])

\* C1 as stated: no record of any result derives from an input row whose
\* termination cell is non-empty after trimming, for any chunk size and any
\* header column order
C1_TerminatedRowsNeverAppear ==
  \A o \in ResultOrigins : OriginDoterm(o) = <<>>

\* C1 amended: no record of any result derives from an input row whose
\* termination cell, after trimming, is non-empty and is not the text "nan"
C1_TerminatedRowsNeverAppearUnlessNan ==
  \A o \in ResultOrigins : OriginDoterm(o) \in {<<>>, NanText}

\* C1 witness: a file with a row that carries a termination date and with
\* another row that is retained has been processed
C1_Witness ==
  /\ pc = "fileReturned"
  /\ \E i \in 1..Len(curFile.rows) : Strip(RawDoterm(curFile, i)) \notin {<<>>, NanText}
  /\ Len(file_stats.rows) > 0

\* a record as a set of values: an integer and the float of the same value
\* are one value (52 == 52.0)
RecordValue(r) == [c \in DOMAIN r |-> ToFloat(r[c])]

RecordsOf(df) == {RecordValue(df.rows[i]) : i \in 1..Len(df.rows)}

\* the records process_onspd_csv gives for a file read as a single chunk
SingleChunkRecords(r) == IF IsRaise(r) THEN {} ELSE RecordsOf(r.df)

WholeFileRecords(file, mapping, tables) ==
  IF file.fault # "none" THEN {}
  ELSE SingleChunkRecords(ProcessChunk(file.rows, mapping, tables))

C5_PerFileFailureTolerated ==
  (entry = "directory" /\ pc \in {"return", "done"} /\ seen.faulty > 0) =>
    /\ raised = "none"
    /\ \A k \in 1..Len(seen.good) : seen.good[k] \in OriginsIn(srcAll)
    /\ OriginsIn(srcAll) \subseteq {seen.good[k] : k \in 1..Len(seen.good)}

\* C7: a run over an existing directory without *.csv files raises nothing
\* and the command line does not end in its failure path
C7_EmptyDirectoryIsNotAnError ==
  (pc \in {"return", "done"} /\ column_mapping # NoMapping
     /\ csvDir.exists /\ csvDir.files = <<>>) =>
    /\ raised = "none"
    /\ (pc = "done" /\ entry = "main") => exitCode = 0

\* C10: after a directory run in which no file meets an error and rows are
\* retained, terminated_postcodes is the number of input rows that carry a
\* termination date
C10_TerminatedCounted ==
  (/\ entry = "directory"
   /\ pc \in {"return", "done"}
   /\ raised = "none"
   /\ seen.faulty = 0
   /\ stats.total_rows_processed > 0) =>
    stats.terminated_postcodes = seen.terminated

\* ------------------------------------------------------------------------
\* Properties of the loop body of _process_chunk
\* ------------------------------------------------------------------------

\* whether the row has a cell for a source column, and that cell as the
\* file holds it, trimmed
HasCell(code) == GetIdx(csv_column_mapping, code) >= 0

\* the trimmed text of the cell of a column; a file without the column
\* has no such text
NoCell == <<"no such column">>

RawCell(code) ==
  IF HasCell(code) THEN Strip(row[GetIdx(csv_column_mapping, code) + 1]) ELSE NoCell

\* the positions of the loop body at which the extractor has filled
\* processed_row
AfterExtraction == {"enrich", "enrichFailed", "append", "kept", "dropped"}

\* the value that enters the transform step for a rule
BeforeTransform(fd) ==
  ApplyDependency(fd, EmptyToNull(CellText(row, GetIdx(csv_column_mapping, fd.onspd_code))),
                  row, csv_column_mapping)

\* C2: for every rule with depends_on, if the dependency cell, trimmed, is
\* empty, the text "nan" or "0", the extracted target field is null whatever
\* its own cell holds, and the value is null already when the transform and
\* the type coercion are reached
C2_DependencyForcesNull ==
  rowPc \in AfterExtraction =>
    \A i \in 1..Len(ONSPD_FIELD_MAPPINGS) :
      LET fd == ONSPD_FIELD_MAPPINGS[i]
      IN  (/\ fd.depends_on # ""
           /\ HasCell(fd.depends_on)
           /\ RawCell(fd.depends_on) \in {<<>>, NanText, <<"0">>})
          => /\ processed_row[fd.column] = Null
             /\ HasCell(fd.onspd_code) => BeforeTransform(fd) = Null

\* C2 witness: a retained row whose northings cell is "0" and whose lat
\* cell is a number has a null latitude
C2_Witness ==
  /\ rowPc = "kept"
  /\ RawCell("osnrth1m") = <<"0">>
  /\ RawCell("lat") = <<"5","1",".","5">>
  /\ processed_row["latitude"] = Null

\* C4: the enricher leaves every target column of the record as the
\* extractor set it and adds only label fields, none of which is a target
\* column
C4_EnrichmentAdditive ==
  [][(rowPc = "enrich" /\ rowPc' = "append") =>
       /\ \A c \in TargetColumns :
            c \in DOMAIN processed_row' /\ processed_row'[c] = processed_row[c]
       /\ (DOMAIN processed_row') \ (DOMAIN processed_row) \subseteq LabelFields
       /\ LabelFields \cap TargetColumns = {}]_vars

\* C4 witness: the enricher has added the country label next to the
\* country code
C4_Witness ==
  /\ rowPc = "append"
  /\ "country" \in DOMAIN processed_row
  /\ processed_row["country_code"] = StrV(TxtE9)

\* C6: no exception leaves the extractor whatever a typed cell holds, and a
\* row is only discarded for want of a postcode
C6_FieldFailureContained ==
  /\ rowPc # "extractFailed"
  /\ rowPc = "dropped" => RawCell("pcds") \in {<<>>, NanText}

\* the cells of the scenario: eastings 529090, northings 0
EastingsSetNorthingsZero ==
  /\ RawCell("oseast1m") = <<"5","2","9","0","9","0">>
  /\ RawCell("osnrth1m") = <<"0">>

\* C9 as stated: in a retained row with eastings 529090 and northings "0",
\* northings and latitude are null, and longitude is not when its cell is a
\* number
C9_NorthingsZeroScenario ==
  (rowPc = "kept" /\ EastingsSetNorthingsZero) =>
    /\ processed_row["northings"] = Null
    /\ processed_row["latitude"] = Null
    /\ ~IsRaise(PyFloat(RawCell("long"))) => ~IsNull(processed_row["longitude"])

\* C9 amended: in a retained row with eastings 529090 and northings "0",
\* northings is the integer 0, latitude is null, and longitude is not null
\* when its cell is a number
C9_NorthingsZeroKeepsNorthings ==
  (rowPc = "kept" /\ EastingsSetNorthingsZero) =>
    /\ processed_row["northings"] = IntV(0)
    /\ processed_row["eastings"] = IntV(529090)
    /\ processed_row["latitude"] = Null
    /\ ~IsRaise(PyFloat(RawCell("long"))) => ~IsNull(processed_row["longitude"])
    /\ RawCell("long") = <<"-","0",".","1">> => processed_row["longitude"] = FloatV("fin", -1, -1)

\* C9 witness: such a row has been retained with its longitude resolved
C9_Witness ==
  /\ rowPc = "kept"
  /\ EastingsSetNorthingsZero
  /\ processed_row["longitude"] = FloatV("fin", -1, -1)

\* ------------------------------------------------------------------------
\* Properties of the construction
\* ------------------------------------------------------------------------

\* the exceptions that leave _load_onspd_schema
ConstructErrors == {"FileNotFoundError", "JSONDecodeError", "KeyError"}

\* C8: construction fails exactly when the schema file is missing or cannot
\* be parsed into the column list (it is not JSON, or not a list of objects
\* that carry a code), and main then returns a non-zero status; whatever
\* lookup files are missing or malformed, a construction with a good schema
\* succeeds and holds exactly the tables whose file exists and parses
C8_OnlySchemaIsFatal ==
  pc # "start" =>
    /\ (schemaFile # SchemaOk) <=> (raised \in ConstructErrors)
    /\ raised \in ConstructErrors =>
         /\ pc \in {"return", "done"}
         /\ (pc = "done" /\ entry = "main") => exitCode = 1
    /\ raised \notin ConstructErrors =>
         /\ DOMAIN column_mapping = {"pcd", "pcds", "dointr", "doterm", "oseast1m",
                                     "osnrth1m", "lat", "long", "ctry", "osgrdind"}
         /\ DOMAIN lookup_tables = {n \in LookupFileNames : lookupFiles[n] \notin {Missing, Malformed}}
         /\ \A n \in DOMAIN lookup_tables : lookupFiles[n] = Json(lookup_tables[n])

\* C8 witness: a construction has succeeded although a lookup file is
\* malformed and another is missing, and holds a table
C8_Witness ==
  /\ pc = "constructed"
  /\ \E n \in LookupFileNames : lookupFiles[n] = Malformed
  /\ \E n \in LookupFileNames : lookupFiles[n] = Missing
  /\ DOMAIN lookup_tables # {}

\* ------------------------------------------------------------------------
\* Properties of the dataset assembler
\* ------------------------------------------------------------------------

\* a command-line run has written its output
OutputWritten == entry = "main" /\ pc \in {"return", "done"} /\ raised = "none"

\* whether record i of the combined result is active: its termination
\* date is null or the empty text
ActiveRecord(i) ==
  combined.rows[i]["date_of_termination"] \in {Null, StrV(<<>>)}

\* whether input row a comes before input row b in the combined order, or
\* is b
NotAfter(a, b) == a.file < b.file \/ (a.file = b.file /\ a.line <= b.line)

\* the active records of the combined result with a postcode, and the one
\* of them whose input row comes last
ActiveWith(p) ==
  {i \in 1..Len(combined.rows) : ActiveRecord(i) /\ combined.rows[i]["postcode"] = StrV(p)}

LastActiveWith(p) ==
  CHOOSE i \in ActiveWith(p) :
    \A j \in ActiveWith(p) : NotAfter(FlattenSeq(srcAll)[j], FlattenSeq(srcAll)[i])

\* the fields of an entry, by group, with the column of the record each
\* takes its value from
EntryFields ==
  { <<"coordinates", "latitude", "latitude">>, <<"coordinates", "longitude", "longitude">>,
    <<"coordinates", "eastings", "eastings">>, <<"coordinates", "northings", "northings">>,
    <<"administrative", "country", "country">>,
    <<"administrative", "admin_district", "admin_district">>,
    <<"administrative", "admin_county", "admin_county">>,
    <<"administrative", "admin_ward", "admin_ward">>,
    <<"administrative", "parish", "parish">>,
    <<"administrative", "constituency", "parliamentary_constituency">>,
    <<"administrative", "region", "region">>,
    <<"administrative", "european_electoral_region", "european_electoral_region">>,
    <<"healthcare", "ccg", "ccg">>, <<"healthcare", "primary_care_trust", "primary_care_trust">>,
    <<"healthcare", "nhs_ha", "nhs_ha">>,
    <<"statistical", "lsoa", "lsoa">>, <<"statistical", "msoa", "msoa">>,
    <<"statistical", "nuts", "nuts">>,
    <<"codes", "country_code", "country_code">>,
    <<"codes", "admin_district_id", "admin_district_id">>,
    <<"codes", "admin_county_id", "admin_county_id">>,
    <<"codes", "admin_ward_id", "admin_ward_id">>, <<"codes", "parish_id", "parish_id">>,
    <<"codes", "constituency_id", "constituency_id">>, <<"codes", "ccg_id", "ccg_id">>,
    <<"codes", "lsoa_id", "lsoa_id">>, <<"codes", "msoa_id", "msoa_id">>,
    <<"codes", "nuts_id", "nuts_id">>, <<"codes", "pfa_id", "pfa_id">>,
    <<"codes", "ced_id", "ced_id">> }

ScalarEntryFields ==
  { <<"quality", "quality">>, <<"date_introduced", "date_of_introduction">>,
    <<"incode", "incode">>, <<"outcode", "outcode">> }

\* the value a record has in a column; NaN where the frame lacks it
RecordField(i, col) ==
  IF col \in combined.cols THEN combined.rows[i][col] ELSE Null

\* C11: the output map has exactly one entry per postcode of the active
\* records, and every field of the entry of a postcode has the value of the
\* active record with that postcode whose input row comes last in file
\* order, then row order
C11_LastWriterWins ==
  OutputWritten =>
    /\ DOMAIN enhanced_data
         = {combined.rows[i]["postcode"].s :
              i \in {j \in 1..Len(combined.rows) : ActiveRecord(j)}}
    /\ \A p \in DOMAIN enhanced_data :
         /\ \A f \in EntryFields :
              enhanced_data[p][f[1]][f[2]] = RecordField(LastActiveWith(p), f[3])
         /\ \A f \in ScalarEntryFields :
              enhanced_data[p][f[1]] = RecordField(LastActiveWith(p), f[2])

\* C11 witness: two active records share a postcode and differ in eastings
\* and country, and the entry carries the values of the later one
C11_Witness ==
  /\ OutputWritten
  /\ \E i, j \in 1..Len(combined.rows) :
       /\ i < j
       /\ combined.rows[i]["postcode"] = combined.rows[j]["postcode"]
       /\ combined.rows[i]["eastings"] # combined.rows[j]["eastings"]
       /\ FlattenSeq(srcAll)[i].file < FlattenSeq(srcAll)[j].file
       /\ enhanced_data[combined.rows[j]["postcode"].s].coordinates.eastings
            = combined.rows[j]["eastings"]

\* C12: the count written in the leading block of the output is the number
\* of entries of the body, and every entry of the body is for an active
\* record (termination date null or empty), also when postcodes repeat
C12_SummaryMatchesBody ==
  OutputWritten =>
    /\ summary = Cardinality(DOMAIN enhanced_data)
    /\ \A p \in DOMAIN enhanced_data : ActiveWith(p) # {}
    /\ \A i \in 1..Len(combined.rows) :
         ActiveRecord(i) => combined.rows[i]["postcode"].s \in DOMAIN enhanced_data

\* C12 witness: an output was written whose count is smaller than the
\* number of active records, a postcode being repeated
C12_Witness ==
  /\ OutputWritten
  /\ summary = 1
  /\ Cardinality({i \in 1..Len(combined.rows) : ActiveRecord(i)}) = 2

\* ------------------------------------------------------------------------
\* Properties of two runs over the same inputs
\* ------------------------------------------------------------------------

\* C13: a second run over the same schema, lookup tables, files in the same
\* order and chunk size returns what the first returned: the same output
\* map, the same written count, the same combined records and counters,
\* and the same exception or exit status; nothing the first run left
\* behind shows in the second
C13_Deterministic ==
  (pc = "done" /\ seen.first.t = "run") =>
    /\ enhanced_data = seen.first.enhanced_data
    /\ summary = seen.first.summary
    /\ combined = seen.first.combined
    /\ stats = seen.first.stats
    /\ raised = seen.first.raised
    /\ exitCode = seen.first.exitCode

\* C13 witness: a second call on the same processor has finished and
\* returned an output map with an entry, from two files
C13_Witness ==
  /\ pc = "done"
  /\ seen.first.t = "run"
  /\ lookup_tables # NoMapping
  /\ Len(seen.files) = 2
  /\ DOMAIN enhanced_data # {}
  /\ stats.total_rows_processed = 2

\* ------------------------------------------------------------------------
\* Properties of the order of the results
\* ------------------------------------------------------------------------

\* the record an input row gives when it is processed alone
RecordOfOrigin(o) ==
  RecordValue(ProcessChunk(<<o.cells>>, HeaderMapping(o.header), lookup_tables).df.rows[1])
    @@ <<>>

\* a record of a frame is the record an input row gives alone, with no
\* value in the columns only other rows of the frame have
RecordIs(r, alone) ==
  /\ DOMAIN alone \subseteq DOMAIN r
  /\ \A c \in DOMAIN r : ToFloat(r[c]) = IF c \in DOMAIN alone THEN alone[c] ELSE Null

RecordIsOf(r, o) == RecordIs(r, RecordOfOrigin(o))

\* the records of a frame are those of the input rows, one for one, in order
FrameIsOf(df, os) ==
  /\ Len(df.rows) = Len(os)
  /\ \A k \in 1..Len(os) : RecordIsOf(df.rows[k], os[k])

\* input rows in the order of the input: by file, then by line
InInputOrder(os) ==
  \A i, j \in 1..Len(os) :
    i < j => os[i].file < os[j].file \/ (os[i].file = os[j].file /\ os[i].line < os[j].line)

\* C14: the records of every result stand in the order of the input: in a
\* file's result the records of an earlier chunk precede those of a later
\* chunk and the rows of a chunk keep their order, and in the combined
\* result the records of an earlier file precede those of a later file;
\* files and chunks are processed one at a time, in order: the chunks held
\* are of the file in hand and of lines already read, the file results
\* held are of the files before it
C14_ResultsInInputOrder ==
  /\ InInputOrder(FlattenSeq(srcAll) \o FlattenSeq(srcChunks))
  /\ pc = "chunks" => Len(chunks) = Len(srcChunks)
  /\ pc = "chunks" => \A i \in 1..Len(chunks) : FrameIsOf(chunks[i], srcChunks[i])
  /\ Len(all_chunks) = Len(srcAll)
  /\ pc = "files" => \A i \in 1..Len(all_chunks) : FrameIsOf(all_chunks[i], srcAll[i])
  /\ pc = "fileReturned" => FrameIsOf(file_stats, FlattenSeq(srcChunks))
  /\ pc \in {"assemble", "return"} /\ raised = "none"
       => FrameIsOf(combined, FlattenSeq(srcAll))
  /\ \A i \in 1..Len(srcChunks) : \A k \in 1..Len(srcChunks[i]) :
       srcChunks[i][k].file = fileNo /\ srcChunks[i][k].line <= rowPos
  /\ \A i \in 1..Len(srcAll) : \A k \in 1..Len(srcAll[i]) :
       IF curFile = NoFile THEN srcAll[i][k].file <= fileNo ELSE srcAll[i][k].file < fileNo

\* C14 witness: the combined result holds, in this order, the row of a
\* first file and the row of a second file, read one row to a chunk
C14_Witness ==
  /\ pc = "return"
  /\ raised = "none"
  /\ chunk_size = 1
  /\ Len(combined.rows) = 2
  /\ FlattenSeq(srcAll)[1].file = 1
  /\ FlattenSeq(srcAll)[2].file = 2
  /\ combined.rows[1]["postcode"] # combined.rows[2]["postcode"]

\* ------------------------------------------------------------------------
\* Properties of the postcode of a record
\* ------------------------------------------------------------------------

\* the row has no postcode: no pcds column, or a pcds cell that is empty,
\* blank or the text "nan"
NoPostcode == ~HasCell("pcds") \/ Lower(RawCell("pcds")) \in {<<>>, NanText}

\* the postcode of a record is a non-empty string
HasPostcode(r) == r["postcode"].t = "str" /\ r["postcode"].s # <<>>

\* C15: a retained record has a non-null, non-empty postcode, and a row
\* that passes the filters and has no postcode is discarded: it is not
\* retained and its processing raises no error
C15_NoPostcodeDiscardedSilently ==
  /\ rowPc = "kept" => HasPostcode(processed_row)
  /\ (rowPc \notin {"filter", "skipped", "extract"} /\ NoPostcode) =>
        rowPc \in {"enrich", "append", "dropped"}

\* ------------------------------------------------------------------------
\* Properties of the lookup enricher
\* ------------------------------------------------------------------------

\* the positions of the loop body at which the enricher has returned
AfterEnrichment == {"append", "kept", "dropped"}

\* the three shapes of a lookup table
IsFlatMap(table) == table.t = "map" /\ \A k \in DOMAIN table.m : table.m[k].t = "str"

IsObjectMap(table) == table.t = "map" /\ \A k \in DOMAIN table.m : table.m[k].t = "obj"

IsObjectList(table) ==
  table.t = "list" /\ \A i \in 1..Len(table.l) : table.l[i].t = "obj" /\ "code" \in DOMAIN table.l[i].o

\* the elements of a list table that carry the code, and the first of them
MatchesIn(table, code) == {i \in 1..Len(table.l) : table.l[i].o["code"] = code}

FirstMatchIn(table, code) ==
  table.l[CHOOSE i \in MatchesIn(table, code) : \A j \in MatchesIn(table, code) : i <= j].o

\* name if present, else value
NameElseValue(o) == IF "name" \in DOMAIN o THEN o["name"] ELSE o["value"]

\* the cases of the claim: the table has one of the three shapes and holds
\* the code (in a list, on an element with a name or a value)
Resolvable(table, code) ==
  \/ (IsFlatMap(table) \/ IsObjectMap(table)) /\ code.s \in DOMAIN table.m
  \/ /\ IsObjectList(table)
     /\ MatchesIn(table, code) # {}
     /\ {"name", "value"} \cap DOMAIN FirstMatchIn(table, code) # {}

\* the label the claim gives for a resolvable code
LabelByShape(table, code) ==
  IF IsFlatMap(table) THEN table.m[code.s]
  ELSE IF IsObjectMap(table)
  THEN IF {"name", "value"} \cap DOMAIN table.m[code.s].o # {}
       THEN NameElseValue(table.m[code.s].o)
       ELSE table.m[code.s]
  ELSE NameElseValue(FirstMatchIn(table, code))

\* C16: after the enricher, for every triple whose code is non-null and
\* whose table is loaded and resolves the code, the label field holds the
\* mapped string (flat map), the object's name, else its value, else the
\* object itself (map of objects), or the name, else the value, of the
\* first element with that code (list), and the code field is unchanged;
\* with countries mapping E9 to "England", ctry = E9 gives country_code =
\* E9 and country = "England"
C16_LabelByTableShape ==
  rowPc \in AfterEnrichment =>
    /\ \A i \in 1..Len(NameMappings) :
         LET triple == NameMappings[i]
             code == DictGet(processed_row, triple.code_field)
         IN  (/\ ~IsNull(code)
              /\ triple.table_name \in DOMAIN lookup_tables
              /\ Resolvable(lookup_tables[triple.table_name], code))
             => /\ triple.name_field \in DOMAIN processed_row
                /\ processed_row[triple.name_field]
                     = LabelByShape(lookup_tables[triple.table_name], code)
    /\ (/\ HasCell("ctry")
        /\ RawCell("ctry") = TxtE9
        /\ "countries" \in DOMAIN lookup_tables
        /\ lookup_tables["countries"] = FlatTable)
       => /\ processed_row["country_code"] = StrV(TxtE9)
          /\ DictGet(processed_row, "country") = StrV(TxtEng)

\* C16 witness: with a countries table of objects, a row's country code
\* was resolved to the name of an object that has a name and a value
C16_Witness ==
  /\ rowPc = "kept"
  /\ "countries" \in DOMAIN lookup_tables
  /\ lookup_tables["countries"] = NestedTable
  /\ processed_row["country_code"] = StrV(TxtE9)
  /\ DictGet(processed_row, "country") = StrV(TxtEng)
  /\ NestedTable.m[TxtE9].o["value"] = StrV(TxtWal)

\* every loaded table has one of the three shapes
TablesWellShaped ==
  \A n \in DOMAIN lookup_tables :
    IsFlatMap(lookup_tables[n]) \/ IsObjectMap(lookup_tables[n]) \/ IsObjectList(lookup_tables[n])

\* the table holds no element for the code
NoMatch(table, code) ==
  IF table.t = "map" THEN code.s \notin DOMAIN table.m ELSE MatchesIn(table, code) = {}

\* the first list element with the code carries neither name nor value
BareMatch(table, code) ==
  /\ table.t = "list"
  /\ MatchesIn(table, code) # {}
  /\ {"name", "value"} \cap DOMAIN FirstMatchIn(table, code) = {}

\* the triple's table is not loaded, or holds no element for the code
Unmatched(triple, code) ==
  \/ triple.table_name \notin DOMAIN lookup_tables
  \/ NoMatch(lookup_tables[triple.table_name], code)

\* the triple's table is a list whose first element with the code carries
\* neither name nor value
BarelyMatched(triple, code) ==
  /\ triple.table_name \in DOMAIN lookup_tables
  /\ BareMatch(lookup_tables[triple.table_name], code)

\* the enricher step and the retention test, with tables of the three
\* shapes: the enricher raises nothing and keeps every coded field, and a
\* record with a postcode is retained
EnricherIsQuiet ==
  /\ (rowPc = "enrich" /\ TablesWellShaped) =>
       /\ rowPc' = "append"
       /\ \A i \in 1..Len(NameMappings) :
            DictGet(processed_row', NameMappings[i].code_field)
              = DictGet(processed_row, NameMappings[i].code_field)
  /\ (rowPc = "append" /\ HasPostcode(processed_row)) => rowPc' = "kept"

\* C17 as stated: with tables of the three shapes, for every triple whose
\* code is non-null and whose table is not loaded, holds no element for the
\* code, or holds a list element for it that carries neither name nor
\* value, the label field is left unset, the coded field keeps its value,
\* nothing is raised and the record is retained
C17_UnresolvedLeftUnset ==
  [][/\ EnricherIsQuiet
     /\ (rowPc = "enrich" /\ TablesWellShaped) =>
          \A i \in 1..Len(NameMappings) :
            LET triple == NameMappings[i]
                code == DictGet(processed_row, triple.code_field)
            IN  (~IsNull(code) /\ (Unmatched(triple, code) \/ BarelyMatched(triple, code)))
                  => triple.name_field \notin DOMAIN processed_row']_vars

\* C17 amended: as stated, except that a list element that matches but
\* carries neither name nor value sets the label field to null instead of
\* leaving it unset
C17_UnresolvedLeftUnsetOrNull ==
  [][/\ EnricherIsQuiet
     /\ (rowPc = "enrich" /\ TablesWellShaped) =>
          \A i \in 1..Len(NameMappings) :
            LET triple == NameMappings[i]
                code == DictGet(processed_row, triple.code_field)
            IN  /\ (~IsNull(code) /\ Unmatched(triple, code))
                      => triple.name_field \notin DOMAIN processed_row'
                /\ (~IsNull(code) /\ BarelyMatched(triple, code))
                      => /\ triple.name_field \in DOMAIN processed_row'
                         /\ processed_row'[triple.name_field] = Null]_vars

\* C17 witness: with a countries list whose element for the row's code
\* carries neither name nor value, the row is retained with its code and a
\* null country label
C17_Witness ==
  /\ rowPc = "kept"
  /\ "countries" \in DOMAIN lookup_tables
  /\ lookup_tables["countries"] = ListTable
  /\ BareMatch(ListTable, processed_row["country_code"])
  /\ "country" \in DOMAIN processed_row
  /\ processed_row["country"] = Null

\* ------------------------------------------------------------------------
\* Properties of the counters
\* ------------------------------------------------------------------------

\* the records of the file results accumulated so far
RecordsHeld == FlattenSeq([i \in 1..Len(all_chunks) |-> all_chunks[i].rows])

\* how many of the records held satisfy a condition
HeldWith(Cond(_)) == Cardinality({k \in 1..Len(RecordsHeld) : Cond(RecordsHeld[k])})

NoTerminationDate(r) == DictGet(r, "date_of_termination") = Null

BothCoordinates(r) == DictGet(r, "latitude") # Null /\ DictGet(r, "longitude") # Null

\* the counters after any number of files: total is the number of records
\* the file results hold (the input rows retained from the files that met
\* no error), active the number of those with no termination date,
\* with_coordinates the number with both coordinates; after the last file
\* terminated is total - active
StatsAreCounts ==
  /\ stats.total_rows_processed = Len(RecordsHeld)
  /\ stats.active_postcodes = HeldWith(NoTerminationDate)
  /\ stats.with_coordinates = HeldWith(BothCoordinates)
  /\ 0 <= stats.with_coordinates /\ stats.with_coordinates <= stats.total_rows_processed
  /\ pc = "files" => stats.total_rows_processed = Len(seen.good)
  /\ pc \in {"assemble", "return", "done"} =>
       /\ stats.terminated_postcodes = stats.total_rows_processed - stats.active_postcodes
       /\ stats.total_rows_processed = stats.active_postcodes + stats.terminated_postcodes

\* a file that failed or yielded no rows changes no counter
EmptyFileCountsNothing ==
  (pc = "fileReturned" /\ file_stats.rows = <<>>) => stats' = stats

\* C18: the counters are the counts of the records the files gave, at
\* every point of a directory run; terminated = total - active once the
\* run is finalized; 0 <= with_coordinates <= total; a file that fails or
\* yields no rows changes no counter
C18_StatsAccumulation == []StatsAreCounts /\ [][EmptyFileCountsNothing]_vars

\* C18 witness: a run has ended over two files, one of which gave two
\* records, one with both coordinates, and the other none
C18_Witness ==
  /\ pc = "return"
  /\ raised = "none"
  /\ fileNo = 2
  /\ Len(all_chunks) = 1
  /\ stats.total_rows_processed = 2
  /\ stats.with_coordinates = 1

\* ------------------------------------------------------------------------
\* Properties of the extracted postcode and coordinates
\* ------------------------------------------------------------------------

\* the text is two non-empty pieces joined by its only space
SplitsInTwo(text, out, in) ==
  /\ text = out \o <<" ">> \o in
  /\ out # <<>> /\ in # <<>>
  /\ ~HasSpace(out) /\ ~HasSpace(in)

OneInteriorSpace(text) ==
  \E k \in 2..(Len(text) - 1) :
    SplitsInTwo(text, SubSeq(text, 1, k - 1), SubSeq(text, k + 1, Len(text)))

\* the text is an integer: digits, or digits followed by ".0"
IntegerText(text) ==
  \/ text # <<>> /\ AllDigits(text)
  \/ /\ Len(text) > 2
     /\ SubSeq(text, Len(text) - 1, Len(text)) = <<".", "0">>
     /\ AllDigits(SubSeq(text, 1, Len(text) - 2))

IntegerOfText(text) ==
  IF AllDigits(text) THEN DigitsValue(text) ELSE DigitsValue(SubSeq(text, 1, Len(text) - 2))

\* the text is a decimal number: an optional sign, digits, and at most one
\* point among them
DecimalText(text) ==
  LET body == IF text # <<>> /\ Head(text) \in {"+", "-"} THEN Tail(text) ELSE text
      digits == SelectSeq(body, LAMBDA c : c # ".")
  IN  /\ digits # <<>>
      /\ AllDigits(digits)
      /\ Len(body) - Len(digits) <= 1

\* a grid reference of the record is a non-zero integer
GridNonZero(col) == processed_row[col].t = "int" /\ processed_row[col].n # 0

\* C19: in an extracted record, when pcds is two pieces joined by one
\* space, postcode is pcds, outcode and incode are the pieces and pc_compact
\* is the pieces run together; eastings and northings are the integers
\* their cells spell ("529090" -> 529090, "123.0" -> 123); latitude and
\* longitude are not null when their cells are decimal numbers and both
\* grid references are non-zero
C19_PostcodeSplitAndCoordinates ==
  rowPc \in AfterExtraction =>
    /\ (HasCell("pcds") /\ OneInteriorSpace(RawCell("pcds"))) =>
         /\ processed_row["postcode"] = StrV(RawCell("pcds"))
         /\ processed_row["outcode"].t = "str"
         /\ processed_row["incode"].t = "str"
         /\ SplitsInTwo(RawCell("pcds"), processed_row["outcode"].s, processed_row["incode"].s)
         /\ processed_row["pc_compact"]
              = StrV(processed_row["outcode"].s \o processed_row["incode"].s)
    /\ (HasCell("oseast1m") /\ IntegerText(RawCell("oseast1m"))) =>
         processed_row["eastings"] = IntV(IntegerOfText(RawCell("oseast1m")))
    /\ (HasCell("osnrth1m") /\ IntegerText(RawCell("osnrth1m"))) =>
         processed_row["northings"] = IntV(IntegerOfText(RawCell("osnrth1m")))
    /\ RawCell("oseast1m") = <<"5","2","9","0","9","0">> => processed_row["eastings"] = IntV(529090)
    /\ RawCell("oseast1m") = <<"1","2","3",".","0">> => processed_row["eastings"] = IntV(123)
    /\ (/\ DecimalText(RawCell("lat")) /\ DecimalText(RawCell("long"))
        /\ GridNonZero("eastings") /\ GridNonZero("northings")) =>
         /\ processed_row["latitude"].t = "float"
         /\ processed_row["longitude"].t = "float"

\* C19 witness: the row "SW1A 1AA" with eastings 529090 was retained with
\* its postcode split and both coordinates
C19_Witness ==
  /\ rowPc = "kept"
  /\ RawCell("pcds") = <<"S","W","1","A"," ","1","A","A">>
  /\ processed_row["outcode"] = StrV(<<"S","W","1","A">>)
  /\ processed_row["incode"] = StrV(<<"1","A","A">>)
  /\ processed_row["pc_compact"] = StrV(<<"S","W","1","A","1","A","A">>)
  /\ processed_row["eastings"] = IntV(529090)
  /\ processed_row["latitude"].t = "float"
  /\ processed_row["longitude"].t = "float"

\* ------------------------------------------------------------------------
\* Properties of the bulk lookup endpoint
\* ------------------------------------------------------------------------

\* C20: the response to POST /postcodes/bulk holds one entry for each
\* requested postcode, in request order, and every entry carries a success
\* flag: true with a non-null postcode when the postcode is found; false
\* with a null postcode and the error "Postcode not found" when it is not
C20_BulkEntriesCarrySuccess ==
  (endpoint = "bulk" /\ serverPc = "responded" /\ response.status = 200) =>
    /\ Len(response.body.results) = Len(request)
    /\ \A i \in 1..Len(request) :
         LET e == response.body.results[i]
         IN  /\ e # Null
             /\ {"success", "postcode"} \subseteq DOMAIN e
             /\ IF request[i] \in store
                THEN e.success = TRUE /\ e.postcode = request[i]
                ELSE /\ e.success = FALSE
                     /\ e.postcode = Null
                     /\ "error" \in DOMAIN e
                     /\ e.error = "Postcode not found"

\* C21: the response to an accepted bulk request holds one entry per requested
\* postcode, in the order of the request (the entry of a postcode that was
\* found carries that postcode, the entry of one that was not is null);
\* total_requested is the number requested, found_count the number of
\* requested postcodes whose lookup returned a record, between 0 and
\* total_requested, and success_rate is found_count over total_requested
FoundAt(i) == request[i] \in store

C21_BulkCounts ==
  (endpoint = "bulk" /\ serverPc = "responded" /\ response.status = 200) =>
    LET body == response.body
        found == Cardinality({i \in 1..Len(request) : FoundAt(i)}) IN
    /\ Len(body.results) = Len(request)
    /\ \A i \in 1..Len(request) :
         IF FoundAt(i) THEN /\ body.results[i] # Null
                            /\ body.results[i].postcode = request[i]
                       ELSE body.results[i] = Null
    /\ body.total_requested = Len(request)
    /\ body.found_count = found
    /\ 0 <= body.found_count /\ body.found_count <= body.total_requested
    /\ body.success_rate = SuccessRate(found, Len(request))

C21_Witness ==
  /\ endpoint = "bulk" /\ serverPc = "responded" /\ response.status = 200
  /\ Len(request) = 2
  /\ response.body.found_count = 1
  /\ response.body.results[1] = Null
  /\ response.body.results[2] # Null

\* ------------------------------------------------------------------------
\* Properties of the validation endpoint
\* ------------------------------------------------------------------------

\* the response of a route that answered 200
Answered(route) == endpoint = route /\ serverPc = "responded" /\ response.status = 200

\* C22: in the response to an accepted validation request every entry is
\* valid exactly when the postcode is well formed and the store holds it;
\* the store is asked only about well-formed postcodes, so exists_in_db
\* implies valid_format; total_valid is the number of valid entries,
\* total_checked the number of postcodes submitted and validation_rate is
\* total_valid over total_checked
C22_ValidationEntriesAndCounts ==
  Answered("validate") =>
    LET body == response.body
        valid == {i \in 1..Len(request) : request[i] \in ValidFormats /\ request[i] \in store} IN
    /\ Len(body.results) = Len(request)
    /\ \A i \in 1..Len(request) :
         /\ body.results[i].postcode = request[i]
         /\ body.results[i].valid_format = (request[i] \in ValidFormats)
         /\ body.results[i].valid = (i \in valid)
         /\ body.results[i].exists_in_db => body.results[i].valid_format
    /\ \A j \in 1..Len(calls) :
         calls[j].fn = "lookup_postcode" => calls[j].arg \in ValidFormats
    /\ body.total_valid = Cardinality(valid)
    /\ body.total_checked = Len(request)
    /\ body.validation_rate = SuccessRate(Cardinality(valid), Len(request))

\* a stored postcode that is not well formed, next to a valid one
C22_Witness ==
  /\ Answered("validate")
  /\ request = <<"GIR 0AA", "E1 6AN">>
  /\ {"GIR 0AA", "E1 6AN"} \subseteq store
  /\ ~response.body.results[1].exists_in_db
  /\ response.body.results[2].valid
  /\ response.body.total_valid = 1

\* ------------------------------------------------------------------------
\* Properties of the endpoints that answer 404
\* ------------------------------------------------------------------------

\* the handler of a route has answered
Handled(route) == endpoint = route /\ serverPc = "responded" /\ response.status # 422

\* the stored postcodes of an outcode
StoredOf(outcode) == {k \in store : PostcodeResults[k].outcode = outcode}

\* C23: GET /postcodes/{postcode} answers 404 with the detail "Postcode not
\* found", POST /spatial/reverse-geocode answers 404 and GET
\* /outcodes/{outcode} answers 404 exactly when the underlying lookup gives
\* no record (none, or an empty list); otherwise each answers 200 with the
\* record or records
C23_NotFoundIs404 ==
  /\ Handled("lookup") =>
        IF request \in store
        THEN response.status = 200 /\ response.body.postcode = request
        ELSE response = [status |-> 404, detail |-> "Postcode not found"]
  /\ Handled("reverse") =>
        IF request = Centre /\ store # {}
        THEN response.status = 200 /\ response.body.postcode \in store
        ELSE response.status = 404
  /\ Handled("outcode") =>
        IF StoredOf(request) # {}
        THEN /\ response.status = 200
             /\ {response.body[i].postcode : i \in 1..Len(response.body)} = StoredOf(request)
             /\ Len(response.body) = Cardinality(StoredOf(request))
        ELSE response.status = 404

C23_Witness ==
  /\ Handled("lookup")
  /\ request = "SW1A 2AA"
  /\ store = {"SW1A 1AA", "E1 6AN"}
  /\ response.status = 404
  /\ response.detail = "Postcode not found"

\* ------------------------------------------------------------------------
\* Properties of the distance endpoint
\* ------------------------------------------------------------------------

\* the error of the response names the postcode as not found
ErrorNames(postcode) ==
  /\ response.body.distance_km = Null
  /\ response.body.error # Null
  /\ response.body.error.text = "Postcode not found: "
  /\ response.body.error.of = postcode

Outside(x, low, high) == x < low \/ x > high

\* the request breaks one of the limits of its route
OverLimit ==
  CASE endpoint \in {"bulk", "validate"} -> Outside(Len(request), 1, 100)
    [] endpoint = "parse" -> Outside(Len(request.text), 1, 10000)
    [] endpoint = "search" ->
         Outside(Len(request.query), 1, 10) \/ Outside(request.limit, 1, 100)
    [] endpoint = "nearest" ->
         \/ Outside(request.latitude, -90, 90)
         \/ Outside(request.longitude, -180, 180)
         \/ Outside(request.limit, 1, 100)
    [] endpoint = "reverse" ->
         Outside(request.latitude, -90, 90) \/ Outside(request.longitude, -180, 180)
    [] endpoint = "area" ->
         \/ request.area_type \notin {"country", "region", "district", "county",
                                      "constituency", "healthcare_region"}
         \/ Outside(request.limit, 1, 10000)
    [] OTHER -> FALSE

\* the radius of a nearest search is out of range, a limit the claim leaves out
RadiusOutside == endpoint = "nearest" /\ (request.radius_km <= 0 \/ request.radius_km > 50)

\* C25: a request that breaks a limit of its route (a bulk or validation
\* list that is empty or longer than 100, a text that is empty or longer
\* than 10000 characters, a search query that is empty or longer than 10
\* characters, a limit below 1 or above the maximum, a latitude outside
\* [-90, 90] or a longitude outside [-180, 180], an area type that is not
\* one of the six) is answered 422 before any lookup is made; a request
\* within the limits (100 postcodes, 10000 characters) is not
C25_LimitsBeforeLookups ==
  (endpoint # "none") =>
    /\ OverLimit => (serverPc = "responded" /\ response.status = 422 /\ calls = <<>>)
    /\ (~OverLimit /\ ~RadiusOutside) => response.status # 422

\* a text one character longer than the limit
C25_Witness ==
  /\ endpoint = "parse"
  /\ Len(request.text) = 10001
  /\ serverPc = "responded"
  /\ response.status = 422
  /\ calls = <<>>

\* ------------------------------------------------------------------------
\* Properties of the row filter
\* ------------------------------------------------------------------------

\* every cell of the row is the name of its own column, in any letter case
RepeatsHeader ==
  \A i \in 1..Len(row) : Lower(row[i]) = ColumnNameText[LowerName(curFile.header[i])]

\* C26: whatever columns the header of the file has, with or without pcd and
\* doterm, a data row that repeats the header line is skipped at the head of
\* the loop body: it is never extracted and makes no record
C26_HeaderRowsSkipped ==
  RepeatsHeader => rowPc \in {"filter", "skipped"}

\* ------------------------------------------------------------------------
\* Properties of columns the file does not have
\* ------------------------------------------------------------------------

\* C27: a dependency column the header of the file lacks counts as a null
\* dependency, so the dependent target field is null for every row of the
\* file (latitude, in a file with lat but without osnrth1m); and a target
\* whose own source column the header lacks is null
C27_AbsentColumnsAreNull ==
  rowPc \in AfterExtraction =>
    \A i \in 1..Len(ONSPD_FIELD_MAPPINGS) :
      LET fd == ONSPD_FIELD_MAPPINGS[i]
      IN  /\ (fd.depends_on # "" /\ ~HasCell(fd.depends_on)) => processed_row[fd.column] = Null
          /\ ~HasCell(fd.onspd_code) => processed_row[fd.column] = Null

\* ------------------------------------------------------------------------
\* Properties of the order of the columns
\* ------------------------------------------------------------------------

\* the columns of a header in lower case and in the order of the schema
SchemaOrder(header) ==
  LET InHeader(c) == \E i \in 1..Len(header) : LowerName(header[i]) = c
  IN  SelectSeq(HeaderA, InHeader)

\* the cells of a line of a file, put in the given order of its columns
InOrder(header, cells, order) ==
  [k \in 1..Len(order) |->
     cells[CHOOSE i \in 1..Len(header) : LowerName(header[i]) = order[k]]]

\* what the rows of a file give when they stand, all in one chunk, in a
\* file that has the same columns in the given order, named in lower case
FileInOrder(file, order) ==
  ProcessChunk([i \in 1..Len(file.rows) |-> InOrder(file.header, file.rows[i], order)],
               HeaderMapping(order), lookup_tables)

\* the same, with the columns in the order of the schema
FileInSchemaOrder == FileInOrder(curFile, SchemaOrder(curFile.header))

\* the frame holds the records of the result, one for one and in order
SameRecords(df, result) ==
  IF IsRaise(result) THEN FrameIsEmpty(df)
  ELSE /\ Len(df.rows) = Len(result.df.rows)
       /\ \A k \in 1..Len(df.rows) : RecordValue(df.rows[k]) = RecordValue(result.df.rows[k])

\* C28: the records do not depend on the order of the columns or on the
\* letter case of the header names: every cell is read through the header
\* mapping of the file that holds the row, resolved before any row of the
\* file, also for files processed one after the other in a directory run;
\* so the result of every file is the result the same rows give in a file
\* with the columns in schema order
C28_ColumnOrderIndependent ==
  (pc = "fileReturned" /\ curFile.fault = "none") => SameRecords(file_stats, FileInSchemaOrder)

\* a second file, with its columns in another order and case than those of
\* the first, has given a record
C28_Witness ==
  /\ pc = "fileReturned"
  /\ fileNo = 2
  /\ curFile.header = HeaderB
  /\ Len(srcAll) = 1
  /\ srcAll[1][1].header = HeaderA
  /\ Len(file_stats.rows) = 1
  /\ file_stats.rows[1]["country_code"] = StrV(TxtW9)

\* ------------------------------------------------------------------------
\* Properties of the termination date of the records
\* ------------------------------------------------------------------------

\* every record of the frame has a null date_of_termination
AllActive(df) == \A i \in 1..Len(df.rows) : DictGet(df.rows[i], "date_of_termination") = Null

\* the termination cell of an input row is empty, blank or the text "nan"
\* in any letter case, or the file has no doterm column
TerminationCellEmpty(o) ==
  LET idx == GetIdx(HeaderMapping(o.header), "doterm")
  IN  idx < 0 \/ Lower(Strip(o.cells[idx + 1])) \in {<<>>, NanText}

PlainText(v) == v.t = "str" /\ v.s # <<>> /\ Strip(v.s) = v.s /\ v.s # NanText

\* the keys of the record and its typed fields: a key for each of the 27
\* target columns, which are pairwise distinct; a rule of type int gives
\* null or an integer, a rule of type float null or a float
KeysAndTypes ==
  /\ Len(ONSPD_FIELD_MAPPINGS) = 27
  /\ Cardinality(TargetColumns) = 27
  /\ TargetColumns \subseteq DOMAIN processed_row
  /\ \A i \in 1..Len(ONSPD_FIELD_MAPPINGS) :
       LET fd == ONSPD_FIELD_MAPPINGS[i]
       IN  fd.type # "" => (processed_row[fd.column] = Null
                            \/ processed_row[fd.column].t = fd.type)
  /\ {ONSPD_FIELD_MAPPINGS[i].column : i \in {j \in 1..27 : ONSPD_FIELD_MAPPINGS[j].type = "int"}}
       = {"eastings", "northings", "quality"}
  /\ {ONSPD_FIELD_MAPPINGS[i].column : i \in {j \in 1..27 : ONSPD_FIELD_MAPPINGS[j].type = "float"}}
       = {"latitude", "longitude"}

\* C30: a retained record has a key for each of the 27 target columns,
\* whatever the header; eastings, northings and quality are null or an
\* integer, latitude and longitude null or a float, and every untyped field
\* is null or a non-empty trimmed string that is not "nan", but for incode
\* and outcode, which are the empty string when the postcode has no space
C30_RecordShape ==
  rowPc = "kept" =>
    /\ KeysAndTypes
    /\ \A i \in 1..Len(ONSPD_FIELD_MAPPINGS) :
         LET fd == ONSPD_FIELD_MAPPINGS[i]
             v == processed_row[fd.column]
         IN  fd.type = "" =>
               \/ v = Null
               \/ PlainText(v)
               \/ /\ fd.column \in {"incode", "outcode"}
                  /\ ~HasSpace(processed_row["postcode"].s)
                  /\ v = StrV(<<>>)

\* C30 amended: as C30 for the keys and the typed fields; an untyped field
\* without a transform is null or a non-empty trimmed string that is not
\* "nan" in any letter case; pc_compact is a non-empty string without
\* spaces; incode and outcode are strings without spaces, empty when the
\* postcode has no space
C30_RecordShapeByTransform ==
  rowPc = "kept" =>
    /\ KeysAndTypes
    /\ \A i \in 1..Len(ONSPD_FIELD_MAPPINGS) :
         LET fd == ONSPD_FIELD_MAPPINGS[i]
             v == processed_row[fd.column]
         IN  /\ (fd.type = "" /\ fd.transform = "") =>
                  (v = Null \/ (PlainText(v) /\ Lower(v.s) # NanText))
             /\ fd.transform # "" => (v.t = "str" /\ ~HasSpace(v.s))
             /\ fd.column = "pc_compact" => v.s # <<>>
             /\ (fd.column \in {"incode", "outcode"} /\ ~HasSpace(processed_row["postcode"].s))
                  => v = StrV(<<>>)

\* a record of a file without the northings and quality columns, whose
\* compact postcode is the text "nan"
C30_Witness ==
  /\ rowPc = "kept"
  /\ curFile.header = HeaderC
  /\ processed_row["postcode"] = StrV(<<"n"," ","a","n">>)
  /\ processed_row["pc_compact"] = StrV(NanText)
  /\ processed_row["quality"] = Null
  /\ processed_row["northings"] = Null
  /\ processed_row["eastings"] = IntV(52)
  /\ processed_row["latitude"].t = "float"

====
